---- MODULE Spec2Model ----
(***************************************************************************)
(* Navigation Analysis Pipeline of the Dira AR backend                     *)
(* (dira_backend/navigation): the analyze_frame view with its Result Cache *)
(* and Metrics Recorder, the Terrain Gate and the Horizon Refiner, and the *)
(* Turn-Guidance Planner.                                                  *)
(*                                                                         *)
(* Units.  Angles of the frame pipeline are whole degrees; a model's       *)
(* bearing_adjustment is in tenths of a degree (225 = 22.5 degrees);       *)
(* confidences are in hundredths (100 = 1.0); distances are centimetres;   *)
(* elevations are decimetres (the Terrain-RGB step of 0.1 m); the angles   *)
(* of the Turn-Guidance Planner are thousandths of a degree.               *)
(*                                                                         *)
(* A JSON value whose Python type decides what the code does with it is a  *)
(* tagged record [t, v]: t is "missing" (key absent), "null", "str" (a     *)
(* value that is not a number) or "num" (v holds the number).              *)
(***************************************************************************)
EXTENDS Integers, Sequences, FiniteSets, TLC

VARIABLES
    client,     \* services.py: GeminiNavigationService.client of the singleton
    caching,    \* settings.ENABLE_RESULT_CACHING
    cache,      \* the nav_result:* entries of django.core.cache
    metrics,    \* the dira_metrics:* entries of django.core.cache
    req,        \* the analyze_frame request handled last
    ai,         \* what the AI service handed the view for that request
    reply,      \* what the AI capability answered, if it was invoked for it
    resp,       \* the response analyze_frame delivered for it
    hreq,       \* the analyze_horizon request handled last
    hres,       \* its service result and the view's response
    treq,       \* the turn-guidance request handled last
    tres,       \* its result
    now,        \* the clock the cache expires its entries by, in seconds
    workers,    \* the analyze_frame requests in flight, each at its own step
    arg,        \* the arguments drawn for a helper function
    ret,        \* what the helper returned for them
    samples     \* the dira_metrics:ai_latency entry: its list and its expiry

vars == <<client, caching, cache, metrics, req, ai, reply, resp, hreq, hres,
          treq, tres, now, workers, arg, ret, samples>>

frameVars == <<cache, metrics, req, ai, reply, resp>>
horizonVars == <<hreq, hres>>
turnVars == <<treq, tres>>
workerVars == <<workers>>
pureVars == <<arg, ret>>
windowVars == <<samples>>

-----------------------------------------------------------------------------
(* Bounds of the model *)

MaxRequests == 2

\* analyze_frame requests in flight at the same time
MaxWorkers == 2

\* the clock stops advancing once it has reached MaxTime seconds
MaxTime == 500

\* latency samples recorded while the list is alive
MaxSamples == 3

\* the clock of the Metrics Recorder stops once it has reached MaxClock
\* seconds
MaxClock == 9000

-----------------------------------------------------------------------------
(* JSON values *)

Missing == [t |-> "missing", v |-> 0, s |-> ""]
Null == [t |-> "null", v |-> 0, s |-> ""]
Text(str) == [t |-> "str", v |-> 0, s |-> str]
Num(n) == [t |-> "num", v |-> n, s |-> ""]

IsNum(x) == x.t = "num"
IsText(x) == x.t = "str"

\* dict.get(key, default)
DictGet(x, default) == IF x.t = "missing" THEN default ELSE x

\* Python truthiness of a JSON value
Truthy(x) == (x.t = "str" /\ x.s # "") \/ (x.t = "num" /\ x.v # 0)

\* Python truthiness of a reasoning token: None and "" are falsy
NoToken == "none"
TokenTruthy(tok) == tok \notin {NoToken, ""}

\* round(): n/d to the nearest integer, a tie going to the even one
RoundDiv(n, d) ==
    LET q == n \div d
        r == n % d
    IN  IF 2 * r < d THEN q
        ELSE IF 2 * r > d THEN q + 1
        ELSE IF q % 2 = 0 THEN q ELSE q + 1

Directions == {"forward", "left", "right", "turn-around"}

-----------------------------------------------------------------------------
(* views.py: helper functions *)

\* get_direction_from_bearing with its third branch returning a misspelt
\* direction
get_direction_from_bearing_typo(current_heading, target_bearing) ==
    LET diff == (target_bearing - current_heading + 360) % 360
    IN  IF diff < 45 \/ diff > 315 THEN "forward"
        ELSE IF 45 <= diff /\ diff < 135 THEN "right"
        ELSE IF 135 <= diff /\ diff < 225 THEN "turn_around"
        ELSE "left"

\* get_direction_from_bearing taking a difference of exactly 315 for forward
get_direction_from_bearing_ge315(current_heading, target_bearing) ==
    LET diff == (target_bearing - current_heading + 360) % 360
    IN  IF diff < 45 \/ diff >= 315 THEN "forward"
        ELSE IF 45 <= diff /\ diff < 135 THEN "right"
        ELSE IF 135 <= diff /\ diff < 225 THEN "turn-around"
        ELSE "left"

get_direction_from_bearing(current_heading, target_bearing) ==
    LET diff == (target_bearing - current_heading + 360) % 360
    IN  IF diff < 45 \/ diff > 315 THEN "forward"
        ELSE IF 45 <= diff /\ diff < 135 THEN "right"
        ELSE IF 135 <= diff /\ diff < 225 THEN "turn-around"
        ELSE "left"

\* infer_direction_from_bearing with 22.5 degrees either way left out of
\* forward
infer_direction_from_bearing_strict(bearing_adjustment) ==
    IF -225 < bearing_adjustment /\ bearing_adjustment < 225 THEN "forward"
    ELSE IF 225 < bearing_adjustment /\ bearing_adjustment <= 900 THEN "right"
    ELSE IF bearing_adjustment > 900 THEN "turn-around"
    ELSE IF -900 <= bearing_adjustment /\ bearing_adjustment < -225 THEN "left"
    ELSE "turn-around"

\* infer_direction_from_bearing on a number, in tenths of a degree
infer_direction_from_bearing(bearing_adjustment) ==
    IF -225 <= bearing_adjustment /\ bearing_adjustment <= 225 THEN "forward"
    ELSE IF 225 < bearing_adjustment /\ bearing_adjustment <= 900 THEN "right"
    ELSE IF bearing_adjustment > 900 THEN "turn-around"
    ELSE IF -900 <= bearing_adjustment /\ bearing_adjustment < -225 THEN "left"
    ELSE "turn-around"

\* the comparisons of infer_direction_from_bearing raise TypeError on None
\* and on a value that is not a number
InferRaises(x) == ~IsNum(x)

\* format_distance cutting a distance under 1 km down to a multiple of 50 m
format_distance_floor50(cm) ==
    IF cm < 5000 THEN ToString(cm \div 100) \o "m ahead"
    ELSE IF cm < 100000 THEN ToString((cm \div 5000) * 50) \o "m away"
    ELSE LET tenths == RoundDiv(cm, 10000)
         IN  ToString(tenths \div 10) \o "." \o ToString(tenths % 10) \o "km away"

\* format_distance, of a distance in centimetres
format_distance(cm) ==
    IF cm < 5000 THEN ToString(cm \div 100) \o "m ahead"
    ELSE IF cm < 100000 THEN ToString(RoundDiv(cm, 5000) * 50) \o "m away"
    ELSE LET tenths == RoundDiv(cm, 10000)
         IN  ToString(tenths \div 10) \o "." \o ToString(tenths % 10) \o "km away"

\* utils.py: calculate_visual_height without its floor
calculate_visual_height_unfloored(distance_m) ==
    (30000 * 1000) \div (IF distance_m > 1000 THEN distance_m ELSE 1000)

\* utils.py: calculate_visual_height, of a distance in metres, in thousandths
\* of a Three.js unit: max(5.0, 30.0 * (1000.0 / max(distance_m, 1000.0)))
calculate_visual_height(distance_m) ==
    LET height == (30000 * 1000) \div (IF distance_m > 1000 THEN distance_m ELSE 1000)
    IN  IF height > 5000 THEN height ELSE 5000

\* round(metres, 1), in centimetres
Round1(cm) == RoundDiv(cm, 10) * 10

\* str.replace('-', ' ').title() of a direction
TitleOf(direction) ==
    CASE direction = "forward" -> "Forward"
      [] direction = "left" -> "Left"
      [] direction = "right" -> "Right"
      [] direction = "turn-around" -> "Turn Around"
      [] OTHER -> direction

\* calculate_distance_to_nearest: waypoints is the query result, nearest first
calculate_distance_to_nearest(waypoints) ==
    IF waypoints # <<>> THEN Round1(waypoints[1].dist) ELSE 0

\* get_enhanced_fallback_instructions answering no instruction at all when
\* no waypoint is near
get_enhanced_fallback_instructions_or_none(heading, nearby_waypoints, destination_name) ==
    IF nearby_waypoints # <<>>
    THEN LET nearest == nearby_waypoints[1]
             direction == get_direction_from_bearing(heading, nearest.bearing)
         IN  <<[direction |-> direction,
                distance |-> Round1(nearest.dist),
                message |-> Text(TitleOf(direction) \o " towards " \o nearest.name)]>>
    ELSE <<>>

\* get_enhanced_fallback_instructions
get_enhanced_fallback_instructions(heading, nearby_waypoints, destination_name) ==
    IF nearby_waypoints # <<>>
    THEN LET nearest == nearby_waypoints[1]
             direction == get_direction_from_bearing(heading, nearest.bearing)
             landmark_name == IF destination_name # "none" /\ destination_name # ""
                              THEN destination_name ELSE nearest.name
             context == IF Len(nearby_waypoints) > 1
                        THEN " (with " \o nearby_waypoints[2].name \o " nearby)"
                        ELSE ""
         IN  <<[direction |-> direction,
                distance |-> Round1(nearest.dist),
                message |-> Text(TitleOf(direction) \o " towards " \o landmark_name
                                 \o " - about " \o format_distance(nearest.dist)
                                 \o context)]>>
    ELSE <<[direction |-> "forward",
            distance |-> 0,
            message |-> Text("Exploring - no nearby landmarks detected. Continue forward.")]>>

-----------------------------------------------------------------------------
(* services.py: GeminiNavigationService.analyze_navigation_frame *)

\* What the model sent back as its JSON object: the four fields the code reads
AIData(instruction, bearing_adjustment, landmark_identified, confidence) ==
    [instruction |-> instruction, bearing_adjustment |-> bearing_adjustment,
     landmark_identified |-> landmark_identified, confidence |-> confidence]

_get_fallback_response ==
    AIData(Text("Continue forward - AI navigation temporarily unavailable"),
           Num(0), Text("Unknown"), Num(0))

\* _fill_missing_fields with the defaults written over what the model sent
_fill_missing_fields_defaults_win(data) ==
    AIData(Text("Continue forward"), Num(0), Text("Unknown"), Num(50))

\* {**defaults, **data}: a key the model left out takes its default, a key
\* the model supplied keeps its value, whatever that is
_fill_missing_fields(data) ==
    AIData(DictGet(data.instruction, Text("Continue forward")),
           DictGet(data.bearing_adjustment, Num(0)),
           DictGet(data.landmark_identified, Text("Unknown")),
           DictGet(data.confidence, Num(50)))

HasRequiredFields(data) ==
    /\ data.instruction.t # "missing"
    /\ data.bearing_adjustment.t # "missing"
    /\ data.landmark_identified.t # "missing"

\* The result dictionary of the service.  error = "" stands for a dictionary
\* without the key 'error'; sig = "absent" for one without 'thought_signature';
\* shape is "dict" unless the data handed back is a JSON value that is no
\* object; invoked tells whether generate_content was called.
SvcError(msg, sig, invoked) ==
    [error |-> msg, data |-> _get_fallback_response, sig |-> sig,
     shape |-> "dict", invoked |-> invoked]

SvcSuccess(data, sig, shape) ==
    [error |-> "", data |-> data, sig |-> sig, shape |-> shape, invoked |-> TRUE]

\* analyze_navigation_frame decoding the image only after the capability
\* has been called
analyze_navigation_frame_decode_late(svcClient, image, outcome) ==
    IF svcClient = "none"
    THEN SvcError("Gemini client not initialized. Check GEMINI_API_KEY in settings.",
                  "absent", FALSE)
    ELSE IF image = "bad_b64"
    THEN SvcError("binascii.Error", "absent", TRUE)
    ELSE CASE outcome.kind \in {"transport_error", "not_object"} ->
                SvcError("transport error", "absent", TRUE)
           [] outcome.kind = "bad_json" ->
                SvcError("Invalid JSON response from AI", outcome.sig, TRUE)
           [] outcome.kind = "array_of_names" ->
                SvcSuccess(outcome.data, outcome.sig, "array")
           [] OTHER ->
                SvcSuccess(IF HasRequiredFields(outcome.data)
                           THEN outcome.data
                           ELSE _fill_missing_fields(outcome.data),
                           outcome.sig, "dict")

\* outcome: what the external capability does when it is invoked.
\*   kind "transport_error": generate_content raises
\*   kind "bad_json": response.text is no JSON
\*   kind "not_object": response.text is JSON but no object, and the check of
\*        the required fields or the filling of the defaults raises TypeError
\*   kind "array_of_names": response.text is a JSON array (or string) that
\*        holds the three required names, so the check of the fields passes
\*   kind "object": response.text is a JSON object with the fields of data
analyze_navigation_frame(svcClient, image, outcome) ==
    IF svcClient = "none"
    THEN SvcError("Gemini client not initialized. Check GEMINI_API_KEY in settings.",
                  "absent", FALSE)
    ELSE IF image = "bad_b64"
    THEN SvcError("binascii.Error", "absent", FALSE)
    ELSE CASE outcome.kind = "transport_error" ->
                SvcError("transport error", "absent", TRUE)
           [] outcome.kind = "bad_json" ->
                SvcError("Invalid JSON response from AI", outcome.sig, TRUE)
           [] outcome.kind = "not_object" ->
                SvcError("TypeError", "absent", TRUE)
           [] outcome.kind = "array_of_names" ->
                SvcSuccess(outcome.data, outcome.sig, "array")
           [] OTHER ->
                SvcSuccess(IF HasRequiredFields(outcome.data)
                           THEN outcome.data
                           ELSE _fill_missing_fields(outcome.data),
                           outcome.sig, "dict")

-----------------------------------------------------------------------------
(* views.py: analyze_frame *)

\* response_data, and the body of a response.  thought_signature and
\* from_cache are "absent" in a body that does not carry the key.
Body(instructions, confidence, landmarks, thought_signature, from_cache) ==
    [instructions |-> instructions, confidence |-> confidence,
     landmarks |-> landmarks, thought_signature |-> thought_signature,
     from_cache |-> from_cache]

NoBody == Body(<<>>, Null, <<>>, "absent", "absent")

\* A response of analyze_frame: its HTTP status, the path that produced it
\* ("invalid", "cache", "fallback", "ai", "raised" when an exception of the
\* AI path left the view, or "store_raised" when one of the cache store did),
\* response_data as built at views.py:237, and the body sent
Response(status, source, data, body) ==
    [status |-> status, source |-> source, data |-> data, body |-> body]

\* serializers.py: a CharField takes a non-blank string
CharFieldValid(x) == IsText(x) /\ x.s # ""

\* serializers.py: AnalyzeFrameResponseSerializer(data=...).is_valid()
ResponseSerializerValid(body) ==
    /\ \A i \in 1..Len(body.instructions) :
          /\ body.instructions[i].direction \in Directions
          /\ CharFieldValid(body.instructions[i].message)
    /\ IsNum(body.confidence)
    /\ \A i \in 1..Len(body.landmarks) : CharFieldValid(body.landmarks[i])

\* serializers.py: response_serializer.data holds the declared fields only:
\* instructions, confidence and landmarks (session_id was not given)
ResponseSerializerData(body) ==
    Body(body.instructions, body.confidence, body.landmarks, "absent", "absent")

\* CacheKey cutting the heading down to a multiple of 15 degrees
CacheKey_floor(r) ==
    [lat |-> RoundDiv(r.latitude, 10), lon |-> RoundDiv(r.longitude, 10),
     heading |-> (r.heading \div 15) * 15]

\* views.py:152-155
CacheKey(r) ==
    [lat |-> RoundDiv(r.latitude, 10), lon |-> RoundDiv(r.longitude, 10),
     heading |-> RoundDiv(r.heading, 15) * 15]

\* settings.py:164, in seconds
NAVIGATION_CACHE_TIMEOUT == 300

\* cache.get(cache_key) finds an entry: one was set and has not expired
CacheHas_NeverExpires(store, key) == key \in DOMAIN store

CacheHas(store, key) == key \in DOMAIN store /\ now < store[key].expires

\* cache.get(cache_key), of an entry that is there
CacheGet(store, key) == store[key].value

\* cache.set keeping an entry that is already there (cache.add)
CacheSet_add(store, key, value, timeout) ==
    IF key \in DOMAIN store /\ now < store[key].expires
    THEN store
    ELSE (key :> [value |-> value, expires |-> now + timeout]) @@ store

\* cache.set(cache_key, value, timeout): overwrites, and expires timeout
\* seconds from now
CacheSet(store, key, value, timeout) ==
    (key :> [value |-> value, expires |-> now + timeout]) @@ store

\* the store after a hit, had cached_result been the stored object itself
StoreAfterHit_marked(store, key) ==
    [store EXCEPT ![key].value.from_cache = "true"]

\* views.py:157-162: the store after a hit.  cache.get of the Redis backend
\* (settings.py:132-153) hands back an object unpickled from the entry, so
\* cached_result['from_cache'] = True marks that copy; a GET does not touch
\* the expiry of the entry either
StoreAfterHit(store, key) == store

\* serializers.py: FrameAnalysisSerializer(data=request.data).is_valid()
RequestValid(r) ==
    /\ r.image # "short"
    /\ 0 <= r.heading /\ r.heading <= 360

\* views.py:132-144: the image is compressed unless the request says
\* compress=false; a failed compression leaves it as it was
CompressionRecorded(r) == r.compress /\ r.image = "jpeg"

\* views.py:172
LandmarkNames(nearby) == [i \in 1..Len(nearby) |-> Text(nearby[i].name)]

\* views.py:175-176
DestinationOf(r, nearby) ==
    IF nearby # <<>> /\ r.destination \in {"none", ""}
    THEN nearby[1].name ELSE r.destination

\* StoresResult without the test of the token
StoresResult_IgnoringToken(r) == caching

\* views.py:246: the result is stored unless the request carries a token
StoresResult(r) == caching /\ ~TokenTruthy(r.thought_signature)

\* ServedFromCache without the test of the token
ServedFromCache_IgnoringToken(r) ==
    /\ caching
    /\ CacheHas(cache, CacheKey(r))

\* views.py:158: a stored entry answers the request unless it carries a token
ServedFromCache(r) ==
    /\ caching
    /\ CacheHas(cache, CacheKey(r))
    /\ ~TokenTruthy(r.thought_signature)

\* What the AI capability does when generate_content is called: kind as
\* analyze_navigation_frame tells them apart, sig its thought_signature,
\* data the JSON object of response.text
Outcome(kind, sig, data) == [kind |-> kind, sig |-> sig, data |-> data]

NoData == AIData(Missing, Missing, Missing, Missing)

\* the capability was not invoked
NoReply == Outcome("none", NoToken, NoData)

\* new_thought_signature keeping what the service handed back, also from a
\* failed analysis
new_thought_signature_kept(svc) ==
    IF svc.sig = "absent" THEN NoToken ELSE svc.sig

\* views.py:216 and 231: None after a failed analysis, otherwise
\* ai_result.get('thought_signature')
new_thought_signature(svc) ==
    IF svc.error # "" THEN NoToken
    ELSE IF svc.sig = "absent" THEN NoToken ELSE svc.sig

\* ParsedConfidence with the default of _fill_missing_fields
ParsedConfidence_half(ai_data) == DictGet(ai_data.confidence, Num(50))

\* views.py:230: ai_data.get('confidence', 0.8)
ParsedConfidence(ai_data) == DictGet(ai_data.confidence, Num(80))

\* The cache store during a request: "up"; "down", every call to it raising;
\* "set_fails", the store gone by the time the result is to be kept.
StoreStates == {"up", "down", "set_fails"}

\* views.py:157: cache.get is called outside any try, and the cache
\* configuration of settings.py:132-153 does not ask the backend to ignore
\* its exceptions
CacheGetRaises(store) == caching /\ store = "down"

\* views.py:248: so is cache.set
CacheSetRaises(r, store) == StoresResult(r) /\ store # "up"

\* monitoring.py: every recording method catches what the store raises, so
\* with the store down nothing is recorded
Recorded(store, recorded) == IF store = "down" THEN metrics ELSE recorded

\* views.py:250-254: the body sent for response_data
Delivered(response_data) ==
    IF ResponseSerializerValid(response_data)
    THEN ResponseSerializerData(response_data)
    ELSE response_data

\* views.py:204-216 and 237-243: response_data after a failed analysis
FallbackResponseData(r, nearby, svc) ==
    Body(get_enhanced_fallback_instructions(r.heading, nearby,
                                            DestinationOf(r, nearby)),
         Num(40), LandmarkNames(nearby), new_thought_signature(svc), "false")

\* views.py:218-222: ai_data.get raises AttributeError on data that is no
\* object, and the comparison of infer_direction_from_bearing raises
\* TypeError on an adjustment that is no number; nothing catches either
ParsedPathRaises(svc) ==
    \/ svc.shape # "dict"
    \/ InferRaises(DictGet(svc.data.bearing_adjustment, Num(0)))

\* views.py:217-243: response_data after a successful analysis
ParsedResponseData(r, nearby, svc) ==
    LET ai_data == svc.data
        direction == infer_direction_from_bearing(
                         DictGet(ai_data.bearing_adjustment, Num(0)).v)
        instructions ==
            <<[direction |-> direction,
               distance |-> calculate_distance_to_nearest(nearby),
               message |-> DictGet(ai_data.instruction,
                                   Text("Continue forward"))]>>
        landmarks ==
            IF /\ Truthy(ai_data.landmark_identified)
               /\ ai_data.landmark_identified # Text("Unknown")
            THEN <<ai_data.landmark_identified>> \o LandmarkNames(nearby)
            ELSE LandmarkNames(nearby)
    IN  Body(instructions, ParsedConfidence(ai_data),
             landmarks, new_thought_signature(svc), "false")

\* The handler, on request r, with the waypoint query answering nearby
\* (nearest first), the AI capability behaving as outcome and the cache store
\* being as store says.
AnalyzeFrame(r, nearby, outcome, store) ==
    /\ metrics.requests < MaxRequests
    /\ req' = r
    /\ reply' = IF /\ RequestValid(r)
                   /\ ~CacheGetRaises(store)
                   /\ ~ServedFromCache(r)
                   /\ analyze_navigation_frame(client, r.image, outcome).invoked
                THEN outcome ELSE NoReply
    /\ UNCHANGED <<windowVars, client, caching, now, workerVars, pureVars, horizonVars, turnVars>>
    /\ LET counted == [metrics EXCEPT !.requests = @ + 1]
           compressed == IF CompressionRecorded(r)
                         THEN [counted EXCEPT !.compressions = @ + 1]
                         ELSE counted
           key == CacheKey(r)
           svc == analyze_navigation_frame(client, r.image, outcome)
           \* views.py:195: the service returned, so the latency is recorded;
           \* it raises nothing that views.py:197 could catch, so
           \* record_ai_error is not reached and errors stays as it is
           timed == [compressed EXCEPT !.latencies = @ + 1]
       IN  IF ~RequestValid(r)
           THEN /\ metrics' = Recorded(store, counted)
                /\ resp' = Response(400, "invalid", NoBody, NoBody)
                /\ ai' = SvcError("", "absent", FALSE)
                /\ UNCHANGED cache
           ELSE IF CacheGetRaises(store)
           THEN /\ metrics' = Recorded(store, compressed)
                /\ resp' = Response(500, "store_raised", NoBody, NoBody)
                /\ ai' = SvcError("", "absent", FALSE)
                /\ UNCHANGED cache
           ELSE IF ServedFromCache(r)
           THEN /\ metrics' = Recorded(store, compressed)
                /\ resp' = Response(200, "cache", NoBody,
                                    [CacheGet(cache, key) EXCEPT !.from_cache = "true"])
                /\ ai' = SvcError("", "absent", FALSE)
                /\ cache' = StoreAfterHit(cache, key)
           ELSE IF svc.error # ""
           THEN LET response_data == FallbackResponseData(r, nearby, svc)
                IN  /\ metrics' = Recorded(store, [timed EXCEPT !.fallbacks = @ + 1])
                    /\ ai' = svc
                    /\ IF CacheSetRaises(r, store)
                       THEN /\ resp' = Response(500, "store_raised", response_data, NoBody)
                            /\ UNCHANGED cache
                       ELSE /\ resp' = Response(200, "fallback", response_data,
                                                Delivered(response_data))
                            /\ cache' = IF StoresResult(r)
                                        THEN CacheSet(cache, key, response_data,
                                                      NAVIGATION_CACHE_TIMEOUT)
                                        ELSE cache
           ELSE IF ParsedPathRaises(svc)
           THEN \* ai_data.get raises AttributeError, or the comparison raises
                \* TypeError: nothing catches it
                /\ metrics' = Recorded(store, timed)
                /\ ai' = svc
                /\ resp' = Response(500, "raised", NoBody, NoBody)
                /\ UNCHANGED cache
           ELSE LET response_data == ParsedResponseData(r, nearby, svc)
                IN  /\ metrics' = Recorded(store, timed)
                    /\ ai' = svc
                    /\ IF CacheSetRaises(r, store)
                       THEN /\ resp' = Response(500, "store_raised", response_data, NoBody)
                            /\ UNCHANGED cache
                       ELSE /\ resp' = Response(200, "ai", response_data,
                                                Delivered(response_data))
                            /\ cache' = IF StoresResult(r)
                                        THEN CacheSet(cache, key, response_data,
                                                      NAVIGATION_CACHE_TIMEOUT)
                                        ELSE cache

-----------------------------------------------------------------------------
(* dem_service.py: the Terrain Gate *)

\* A tile lookup: kind "tile" with the pixel <<r, g, b>> read from it, or a
\* failure: "status" (the tile answer is not 200) or "exception" (the
\* request, the decoding of the image or the reading of the pixel raises)
Tile(r, g, b) == [kind |-> "tile", rgb |-> <<r, g, b>>]
LookupFails(kind) == [kind |-> kind, rgb |-> <<0, 0, 0>>]

\* get_elevation, in decimetres; configured: settings has MAPBOX_ACCESS_TOKEN
get_elevation(configured, lookup) ==
    IF ~configured THEN 0
    ELSE IF lookup.kind # "tile" THEN 0
    ELSE -100000 + (lookup.rgb[1] * 256 * 256 + lookup.rgb[2] * 256 + lookup.rgb[3])

SeqMax(q) == CHOOSE x \in {q[i] : i \in DOMAIN q} : \A j \in DOMAIN q : q[j] <= x
SeqMin(q) == CHOOSE x \in {q[i] : i \in DOMAIN q} : \A j \in DOMAIN q : x <= q[j]

\* get_terrain_variation, in decimetres: lookups are the answers for the
\* centre and the four offsets, in the order the code asks for them.
\* get_elevation catches whatever a lookup raises, so the handler that
\* answers 1000.0 is never entered.
get_terrain_variation(configured, lookups) ==
    LET elevations == [i \in 1..Len(lookups) |-> get_elevation(configured, lookups[i])]
    IN  SeqMax(elevations) - SeqMin(elevations)

\* f"{variation:.1f}" of a variation in decimetres
OneDecimal(dm) == ToString(dm \div 10) \o "." \o ToString(dm % 10)

\* should_skip_gemini_analysis skipping also at a variation of exactly 100 m
should_skip_gemini_analysis_le(configured, lookups) ==
    LET variation == get_terrain_variation(configured, lookups)
    IN  IF variation <= 1000
        THEN [skip |-> TRUE,
              reason |-> "flat_terrain (variation: " \o OneDecimal(variation) \o "m)"]
        ELSE [skip |-> FALSE, reason |-> "complex_terrain"]

\* should_skip_gemini_analysis: (should_skip, reason)
should_skip_gemini_analysis(configured, lookups) ==
    LET variation == get_terrain_variation(configured, lookups)
    IN  IF variation < 1000
        THEN [skip |-> TRUE,
              reason |-> "flat_terrain (variation: " \o OneDecimal(variation) \o "m)"]
        ELSE [skip |-> FALSE, reason |-> "complex_terrain"]

-----------------------------------------------------------------------------
(* services.py: GeminiNavigationService.analyze_horizon *)

\* A list-valued key of a dictionary: present or not, and the list
Absent == [present |-> FALSE, items |-> <<>>]
Present(items) == [present |-> TRUE, items |-> items]

\* list-valued dict.get(key, default)
ListGet(x, default) == IF x.present THEN x.items ELSE default

HorizonData(horizon_line_y_percent, skyline_features, refined_pois) ==
    [horizon_line_y_percent |-> horizon_line_y_percent,
     skyline_features |-> skyline_features, refined_pois |-> refined_pois]

NoHorizonData == HorizonData(Missing, Absent, Absent)

\* The result dictionary of analyze_horizon.  success = FALSE, error = "",
\* refined_pois = Absent, sig = "absent" and skipped_reason = "" stand for a
\* dictionary without that key; shape is "dict" unless data is a JSON value
\* that is no object; invoked tells whether generate_content was called.
HorizonError_without_pois(msg, visible_pois, sig, invoked) ==
    [success |-> FALSE, error |-> msg, data |-> NoHorizonData,
     refined_pois |-> Absent, sig |-> sig,
     skipped_reason |-> "", shape |-> "dict", invoked |-> invoked]

HorizonError(msg, visible_pois, sig, invoked) ==
    [success |-> FALSE, error |-> msg, data |-> NoHorizonData,
     refined_pois |-> Present(visible_pois), sig |-> sig,
     skipped_reason |-> "", shape |-> "dict", invoked |-> invoked]

HorizonSuccess(data, sig, skipped_reason, shape, invoked) ==
    [success |-> TRUE, error |-> "", data |-> data, refined_pois |-> Absent,
     sig |-> sig, skipped_reason |-> skipped_reason, shape |-> shape,
     invoked |-> invoked]

\* services.py:298-301: building the summary reads name, bearing_degrees and
\* distance_meters of every POI and raises on one that lacks them
PoiSummaryRaises(visible_pois) ==
    \E i \in 1..Len(visible_pois) : ~visible_pois[i].wellformed

\* the result of a skipped analysis with an empty list of refined POIs
skipped_result_empty(visible_pois, reason) ==
    HorizonSuccess(HorizonData(Num(50), Present(<<>>), Present(<<>>)),
                   "absent", reason, "dict", FALSE)

\* services.py:269-277: the result of a skipped analysis
skipped_result(visible_pois, reason) ==
    HorizonSuccess(HorizonData(Num(50), Present(<<>>), Present(visible_pois)),
                   "absent", reason, "dict", FALSE)

\* the parsed result handed back as the model sent it
parsed_result_as_sent(visible_pois, outcome) ==
    HorizonSuccess(outcome.data, outcome.sig, "", "dict", TRUE)

\* services.py:378-389: the parsed result, with the original list in the
\* place of refined_pois when the model left the key out
parsed_result(visible_pois, outcome) ==
    HorizonSuccess(IF outcome.data.refined_pois.present
                   THEN outcome.data
                   ELSE [outcome.data EXCEPT !.refined_pois = Present(visible_pois)],
                   outcome.sig, "", "dict", TRUE)

\* analyze_horizon taking a Terrain Gate that raises for a reason to skip
analyze_horizon_skip_on_raise(svcClient, e) ==
    LET gate == should_skip_gemini_analysis(e.configured, e.lookups)
    IN  IF ~e.dem_available \/ gate.skip
        THEN skipped_result(e.visible_pois, gate.reason)
        ELSE IF svcClient = "none"
        THEN HorizonError("Gemini client not initialized", e.visible_pois, "absent", FALSE)
        ELSE IF e.image = "bad_b64"
        THEN HorizonError("binascii.Error", e.visible_pois, "absent", FALSE)
        ELSE IF PoiSummaryRaises(e.visible_pois)
        THEN HorizonError("KeyError", e.visible_pois, "absent", FALSE)
        ELSE CASE e.outcome.kind = "transport_error" ->
                    HorizonError("transport error", e.visible_pois, "absent", TRUE)
               [] e.outcome.kind = "bad_json" ->
                    HorizonError("Invalid JSON from horizon analysis", e.visible_pois,
                                 e.outcome.sig, TRUE)
               [] e.outcome.kind = "not_object" ->
                    HorizonError("TypeError", e.visible_pois, "absent", TRUE)
               [] e.outcome.kind = "array_of_names" ->
                    HorizonSuccess(NoHorizonData, e.outcome.sig, "", "array", TRUE)
               [] OTHER -> parsed_result(e.visible_pois, e.outcome)

\* analyze_horizon, on the inputs and the environment e: e.dem_available
\* (dem_service imports), e.configured and e.lookups (the Terrain Gate's
\* setting and its five tile lookups), e.image, e.visible_pois, and
\* e.outcome, what the external capability does when it is invoked:
\*   kind "transport_error": generate_content raises
\*   kind "bad_json": response.text is no JSON
\*   kind "not_object": response.text is JSON but no object, and the test for
\*        refined_pois or the substitution raises TypeError
\*   kind "array_of_names": response.text is a JSON array (or string) that
\*        holds "refined_pois", so the test passes
\*   kind "object": response.text is a JSON object with the fields of data
analyze_horizon(svcClient, e) ==
    LET gate == should_skip_gemini_analysis(e.configured, e.lookups)
    IN  IF e.dem_available /\ gate.skip
        THEN skipped_result(e.visible_pois, gate.reason)
        ELSE IF svcClient = "none"
        THEN HorizonError("Gemini client not initialized", e.visible_pois, "absent", FALSE)
        ELSE IF e.image = "bad_b64"
        THEN HorizonError("binascii.Error", e.visible_pois, "absent", FALSE)
        ELSE IF PoiSummaryRaises(e.visible_pois)
        THEN HorizonError("KeyError", e.visible_pois, "absent", FALSE)
        ELSE CASE e.outcome.kind = "transport_error" ->
                    HorizonError("transport error", e.visible_pois, "absent", TRUE)
               [] e.outcome.kind = "bad_json" ->
                    HorizonError("Invalid JSON from horizon analysis", e.visible_pois,
                                 e.outcome.sig, TRUE)
               [] e.outcome.kind = "not_object" ->
                    HorizonError("TypeError", e.visible_pois, "absent", TRUE)
               [] e.outcome.kind = "array_of_names" ->
                    HorizonSuccess(NoHorizonData, e.outcome.sig, "", "array", TRUE)
               [] OTHER -> parsed_result(e.visible_pois, e.outcome)

-----------------------------------------------------------------------------
(* views.py: analyze_horizon *)

\* A response of the view.  error = "" stands for a body without 'error',
\* success = FALSE for one without 'success'.
HorizonResponse(status, error, success, horizon, skyline, refined, sig) ==
    [status |-> status, error |-> error, success |-> success,
     horizon_line_y_percent |-> horizon, skyline_features |-> skyline,
     refined_pois |-> refined, thought_signature |-> sig]

\* views.py:259-292, given the service's result.  e.has_fields: the request
\* holds the five required fields; e.numeric: float() takes its latitude,
\* longitude and heading.
analyze_horizon_view(e, result) ==
    IF ~e.has_fields
    THEN HorizonResponse(400, "Missing", FALSE, Missing, <<>>, <<>>, "absent")
    ELSE IF ~e.numeric
    THEN \* float() raises ValueError before the service is called
         HorizonResponse(500, "ValueError", FALSE, Missing, <<>>,
                         e.visible_pois, "absent")
    ELSE IF ~result.success
    THEN HorizonResponse(500, result.error, FALSE, Missing, <<>>,
                         ListGet(result.refined_pois, <<>>), "absent")
    ELSE IF result.shape # "dict"
    THEN \* result['data'].get raises AttributeError, caught at views.py:290
         HorizonResponse(500, "AttributeError", FALSE, Missing, <<>>,
                         e.visible_pois, "absent")
    ELSE HorizonResponse(200, "", TRUE,
                         DictGet(result.data.horizon_line_y_percent, Num(50)),
                         ListGet(result.data.skyline_features, <<>>),
                         ListGet(result.data.refined_pois, <<>>),
                         IF result.sig = "absent" THEN NoToken ELSE result.sig)

-----------------------------------------------------------------------------
(* services.py: GeminiNavigationService.generate_turn_guidance *)

Abs(x) == IF x < 0 THEN -x ELSE x

\* round(heading_diff, 2), in thousandths of a degree
Round2(mdeg) == RoundDiv(mdeg, 10) * 10

\* f"{turn_amount:.0f}" of an amount in thousandths of a degree
WholeDegrees(mdeg) == ToString(RoundDiv(mdeg, 1000))

\* services.py:442-446
heading_diff_of(user_heading, target_bearing) ==
    LET d == (target_bearing - user_heading + 360000) % 360000
    IN  IF d > 180000 THEN d - 360000 ELSE d

\* services.py:451-456
alignment_status_of(heading_diff) ==
    IF Abs(heading_diff) < 5000 THEN "aligned"
    ELSE IF heading_diff < 0 THEN "turning_right"
    ELSE "turning_left"

TurnResult(error, text, alignment_status, turn_degrees, invoked) ==
    [error |-> error, text |-> text, alignment_status |-> alignment_status,
     turn_degrees |-> turn_degrees, invoked |-> invoked]

\* generate_turn_guidance: angles in thousandths of a degree, distance_m in
\* centimetres; outcome.kind is "text" (generate_content answers, and
\* outcome.text is response.text stripped) or "error" (it raises, or
\* response.text is None).  error = "" stands for a result without 'error'.
generate_turn_guidance(svcClient, user_heading, target_bearing, distance_m, poi_name, outcome) ==
    IF svcClient = "none"
    THEN TurnResult("Gemini client not initialized", "Turn to face the target",
                    "unknown", 0, FALSE)
    ELSE LET heading_diff == heading_diff_of(user_heading, target_bearing)
             turn_amount == Abs(heading_diff)
             status == alignment_status_of(heading_diff)
             direction == IF heading_diff > 0 THEN "left" ELSE "right"
         IN  IF status = "aligned"
             THEN TurnResult("",
                      IF distance_m < 100000
                      THEN "Perfect! " \o poi_name \o " is about "
                           \o ToString(distance_m \div 100) \o " meters straight ahead."
                      ELSE LET tenths == RoundDiv(distance_m, 10000)
                           IN  "Perfect! " \o poi_name \o " is about "
                               \o ToString(tenths \div 10) \o "." \o ToString(tenths % 10)
                               \o " kilometers straight ahead.",
                      status, heading_diff, FALSE)
             ELSE IF outcome.kind = "text"
             THEN TurnResult("", outcome.text, status, Round2(heading_diff), TRUE)
             ELSE TurnResult("",
                      "Turn " \o direction \o " about " \o WholeDegrees(turn_amount)
                      \o " degrees",
                      status, Round2(heading_diff), TRUE)

-----------------------------------------------------------------------------
(* Inputs of analyze_frame *)

Request(image, latitude, longitude, heading, thought_signature, destination, compress) ==
    [image |-> image, latitude |-> latitude, longitude |-> longitude,
     heading |-> heading, thought_signature |-> thought_signature,
     destination |-> destination, compress |-> compress]

\* Kisumu, in units of 0.00001 degree
BaseRequest == Request("jpeg", -9170, 3476895, 0, NoToken, "none", TRUE)

\* "jpeg": base64 of an image; "bad_b64": 100 characters or more that
\* base64.b64decode rejects; "short": fewer than 100 characters
Requests ==
    {[BaseRequest EXCEPT !.image = i, !.heading = h, !.thought_signature = tok] :
        i \in {"jpeg", "bad_b64"}, h \in {0, 360}, tok \in {NoToken, "sigA"}}
    \cup {[BaseRequest EXCEPT !.image = "short"],
          [BaseRequest EXCEPT !.heading = 361],
          [BaseRequest EXCEPT !.thought_signature = ""],
          [BaseRequest EXCEPT !.compress = FALSE],
          [BaseRequest EXCEPT !.destination = "Market"]}

Waypoint(name, bearing, dist) == [name |-> name, bearing |-> bearing, dist |-> dist]

\* What the waypoint query may answer: at most 5 waypoints within 500 m,
\* nearest first
NearbyAnswers ==
    {<<>>,
     <<Waypoint("Sunny's Cafe", 100, 3012)>>,
     <<Waypoint("Market", 200, 48000)>>,
     <<Waypoint("Tower", 300, 7525)>>,
     <<Waypoint("Gate", 10, 965), Waypoint("Sunny's Cafe", 100, 3012)>>}

FrameOutcomes ==
    {Outcome("transport_error", NoToken, NoData),
     Outcome("bad_json", "sigB", NoData),
     Outcome("not_object", "sigB", NoData),
     Outcome("object", "sigB",
             AIData(Text("Turn right towards the yellow cafe building"),
                    Num(450), Text("Sunny's Cafe"), Num(85))),
     Outcome("object", NoToken, AIData(Text("Keep going"), Missing, Missing, Missing)),
     Outcome("object", "sigB",
             AIData(Text("Keep going"), Null, Text("Unknown"), Num(150)))}

-----------------------------------------------------------------------------
(* The frame pipeline *)

\* the counters, and the number of entries in the latency and error lists
NoMetrics ==
    [requests |-> 0, fallbacks |-> 0, latencies |-> 0, errors |-> 0,
     compressions |-> 0]

NoResponse == Response(0, "none", NoBody, NoBody)

NoService == SvcError("", "absent", FALSE)

NoHorizon == [none |-> TRUE]

NoTurn == [none |-> TRUE]

NoWorkers == <<>>

\* no dira_metrics:ai_latency entry in the store
NoSamples == [latencies |-> <<>>, expires |-> 0]

NoArg == [none |-> TRUE]

NoRet == [none |-> TRUE]

Init ==
    /\ client \in {"ok", "none"}
    /\ caching \in BOOLEAN
    /\ cache = <<>>
    /\ metrics = NoMetrics
    /\ req = BaseRequest
    /\ ai = NoService
    /\ reply = NoReply
    /\ resp = NoResponse
    /\ hreq = NoHorizon
    /\ hres = NoHorizon
    /\ treq = NoTurn
    /\ tres = NoTurn
    /\ now = 0
    /\ samples = NoSamples
    /\ workers = NoWorkers
    /\ arg = NoArg
    /\ ret = NoRet

HandleFrame ==
    \E r \in Requests, nearby \in NearbyAnswers, outcome \in FrameOutcomes :
        AnalyzeFrame(r, nearby, outcome, "up")

Next == HandleFrame

Spec == Init /\ [][Next]_vars

-----------------------------------------------------------------------------
(* The PARSED path of analyze_frame on whatever the model may put in its    *)
(* fields: one request, handled from a state in which the request counter  *)
(* is one short of the bound and the cache is still empty.                 *)

FieldValues(numbers) == {Missing, Null, Text("high")} \cup {Num(n) : n \in numbers}

ParsedOutcomes ==
    {Outcome("object", "sigB", AIData(i, b, l, c)) :
        i \in {Missing, Null, Text("Keep going")},
        b \in FieldValues({-1800, -901, -900, -226, -225, 0, 225, 226, 900, 901, 2000}),
        l \in {Missing, Null, Text("Unknown"), Text("Sunny's Cafe")},
        c \in FieldValues({-10, 0, 85, 100, 150})}
    \cup {Outcome("array_of_names", "sigB", NoData)}

ParsedRequests ==
    {[BaseRequest EXCEPT !.thought_signature = tok] : tok \in {NoToken, "sigA"}}

InitParsed ==
    /\ client = "ok"
    /\ caching \in BOOLEAN
    /\ cache = <<>>
    /\ metrics = [NoMetrics EXCEPT !.requests = MaxRequests - 1]
    /\ req = BaseRequest
    /\ ai = NoService
    /\ reply = NoReply
    /\ resp = NoResponse
    /\ hreq = NoHorizon
    /\ hres = NoHorizon
    /\ treq = NoTurn
    /\ tres = NoTurn
    /\ now = 0
    /\ samples = NoSamples
    /\ workers = NoWorkers
    /\ arg = NoArg
    /\ ret = NoRet

HandleParsedFrame ==
    \E r \in ParsedRequests, nearby \in NearbyAnswers, outcome \in ParsedOutcomes :
        AnalyzeFrame(r, nearby, outcome, "up")

NextParsed == HandleParsedFrame

SpecParsed == InitParsed /\ [][NextParsed]_vars

-----------------------------------------------------------------------------
(* The Terrain Gate on its own: five lookups drawn, the gate applied once *)

\* The pixel that encodes an elevation given in decimetres
TileAt(dm) ==
    LET n == dm + 100000
    IN  Tile(n \div (256 * 256), (n \div 256) % 256, n % 256)

\* 50 m, 100 m, 199.9 m, 200 m, 300 m and 1130 m, and the two ways to fail
GateLookups ==
    {LookupFails("status"), LookupFails("exception"),
     TileAt(500), TileAt(1000), TileAt(1999), TileAt(2000), TileAt(3000), TileAt(11300)}

GateInputs ==
    [configured : BOOLEAN, lookups : [1..5 -> GateLookups]]

InitGate ==
    /\ client = "ok"
    /\ caching = TRUE
    /\ cache = <<>>
    /\ metrics = NoMetrics
    /\ req = BaseRequest
    /\ ai = NoService
    /\ reply = NoReply
    /\ resp = NoResponse
    /\ hreq \in GateInputs
    /\ hres = NoHorizon
    /\ treq = NoTurn
    /\ tres = NoTurn
    /\ now = 0
    /\ samples = NoSamples
    /\ workers = NoWorkers
    /\ arg = NoArg
    /\ ret = NoRet

ApplyGate ==
    /\ hres = NoHorizon
    /\ hres' = should_skip_gemini_analysis(hreq.configured, hreq.lookups)
    /\ UNCHANGED <<windowVars, client, caching, now, workerVars, pureVars, frameVars, hreq, turnVars>>

NextGate == ApplyGate

SpecGate == InitGate /\ [][NextGate]_vars

-----------------------------------------------------------------------------
(* The Horizon Refiner: one request drawn, the view applied once *)

Poi(name, bearing_degrees, distance_meters, wellformed) ==
    [name |-> name, bearing_degrees |-> bearing_degrees,
     distance_meters |-> distance_meters, wellformed |-> wellformed]

KisumuCity == Poi("Kisumu City", 87, 12000, TRUE)
MountElgon == Poi("Mount Elgon", 95, 48000, TRUE)

\* wellformed = FALSE: a POI without bearing_degrees or distance_meters
PoiLists ==
    {<<>>, <<KisumuCity>>, <<KisumuCity, MountElgon>>,
     <<Poi("Unnamed", 0, 0, FALSE)>>}

Refined(name, original_bearing, action, y_adjustment) ==
    [name |-> name, original_bearing |-> original_bearing,
     action |-> action, y_adjustment |-> y_adjustment]

Skyline == <<[type |-> "mountain", bearing_start |-> 80, bearing_end |-> 110,
              estimated_height_degrees |-> 15]>>

HorizonOutcomes ==
    {Outcome("transport_error", NoToken, NoHorizonData),
     Outcome("bad_json", "sigB", NoHorizonData),
     Outcome("not_object", "sigB", NoHorizonData),
     Outcome("array_of_names", "sigB", NoHorizonData),
     Outcome("object", "sigB",
             HorizonData(Num(45), Present(Skyline),
                         Present(<<Refined("Kisumu City", 87, "raise", 30)>>))),
     Outcome("object", "sigB", HorizonData(Num(45), Present(Skyline), Present(<<>>))),
     Outcome("object", "sigB", HorizonData(Num(45), Present(Skyline), Absent)),
     Outcome("object", NoToken, NoHorizonData)}

\* all lookups fail; flat at 100 m; 100 m with one sample at 300 m; flat at
\* 1130 m with the lookup of the centre failing
HorizonLookups ==
    {[i \in 1..5 |-> LookupFails("exception")],
     [i \in 1..5 |-> TileAt(1000)],
     [i \in 1..5 |-> IF i = 2 THEN TileAt(3000) ELSE TileAt(1000)],
     [i \in 1..5 |-> IF i = 1 THEN LookupFails("status") ELSE TileAt(11300)]}

HorizonInputs ==
    [has_fields : BOOLEAN, numeric : BOOLEAN, image : {"jpeg", "bad_b64"},
     visible_pois : PoiLists, dem_available : BOOLEAN, configured : BOOLEAN,
     lookups : HorizonLookups, outcome : HorizonOutcomes]

NoHorizonResult == HorizonError("", <<>>, "absent", FALSE)

InitHorizon ==
    /\ client \in {"ok", "none"}
    /\ caching = TRUE
    /\ cache = <<>>
    /\ metrics = NoMetrics
    /\ req = BaseRequest
    /\ ai = NoService
    /\ reply = NoReply
    /\ resp = NoResponse
    /\ hreq \in HorizonInputs
    /\ hres = NoHorizon
    /\ treq = NoTurn
    /\ tres = NoTurn
    /\ now = 0
    /\ samples = NoSamples
    /\ workers = NoWorkers
    /\ arg = NoArg
    /\ ret = NoRet

\* called: whether the view got as far as calling the service
HandleHorizon ==
    /\ hres = NoHorizon
    /\ LET called == hreq.has_fields /\ hreq.numeric
           result == analyze_horizon(client, hreq)
       IN  hres' = [called |-> called,
                    result |-> IF called THEN result ELSE NoHorizonResult,
                    response |-> analyze_horizon_view(hreq, result)]
    /\ UNCHANGED <<windowVars, client, caching, now, workerVars, pureVars, frameVars, hreq, turnVars>>

NextHorizon == HandleHorizon

SpecHorizon == InitHorizon /\ [][NextHorizon]_vars

-----------------------------------------------------------------------------
(* The Turn-Guidance Planner: one request drawn, the planner applied once *)

TurnOutcomes ==
    {[kind |-> "text", text |-> "Swing a little to your left, almost there!"],
     [kind |-> "error", text |-> ""]}

\* thousandths of a degree, all in [0, 360)
TurnHeadings == {0, 12345, 90000, 350000}
TurnBearings ==
    {0, 10000, 85000, 85001, 90000, 94999, 95000, 100000, 170000, 180000,
     270000, 359999}

\* celestial_views.py:92 builds a service of its own for every request, so
\* whether the client is there is drawn with the request
TurnInputs ==
    [client : {"ok", "none"}, user_heading : TurnHeadings,
     target_bearing : TurnBearings, distance_m : {42050, 100000, 1234500},
     poi_name : {"Kisumu City"}, outcome : TurnOutcomes]

InitTurn ==
    /\ client = "ok"
    /\ caching = TRUE
    /\ cache = <<>>
    /\ metrics = NoMetrics
    /\ req = BaseRequest
    /\ ai = NoService
    /\ reply = NoReply
    /\ resp = NoResponse
    /\ hreq = NoHorizon
    /\ hres = NoHorizon
    /\ treq \in TurnInputs
    /\ tres = NoTurn
    /\ now = 0
    /\ samples = NoSamples
    /\ workers = NoWorkers
    /\ arg = NoArg
    /\ ret = NoRet

HandleTurn ==
    /\ tres = NoTurn
    /\ tres' = generate_turn_guidance(treq.client, treq.user_heading,
                                      treq.target_bearing, treq.distance_m,
                                      treq.poi_name, treq.outcome)
    /\ UNCHANGED <<windowVars, client, caching, now, workerVars, pureVars, frameVars, horizonVars, treq>>

NextTurn == HandleTurn

SpecTurn == InitTurn /\ [][NextTurn]_vars

-----------------------------------------------------------------------------
(* analyze_frame under concurrency: MaxWorkers valid requests in flight,    *)
(* each a thread or process of the server working through the view; the    *)
(* steps are the view's calls to the store of the Metrics Recorder and its *)
(* call to the AI capability.  The requests carry tokens, so none of them  *)
(* reads or writes the Result Cache.                                       *)

\* A request in flight: the statement it is at, the count its increment
\* read, and whether its AI analysis failed
Worker(pc, count, failed) == [pc |-> pc, count |-> count, failed |-> failed]

\* monitoring.py:87: count = cache.get(REQUEST_COUNT_KEY, 0)
ReadRequestCount(w) ==
    /\ workers[w].pc = "start"
    /\ workers' = [workers EXCEPT ![w] = Worker("write_request", metrics.requests, FALSE)]
    /\ UNCHANGED <<windowVars, client, caching, now, pureVars, frameVars, horizonVars, turnVars>>

\* monitoring.py:88: cache.set(REQUEST_COUNT_KEY, count + 1, DAY_SECONDS)
WriteRequestCount(w) ==
    /\ workers[w].pc = "write_request"
    /\ metrics' = [metrics EXCEPT !.requests = workers[w].count + 1]
    /\ workers' = [workers EXCEPT ![w] = Worker("call_ai", 0, FALSE)]
    /\ UNCHANGED <<windowVars, client, caching, now, pureVars, cache, req, ai, reply, resp,
                   horizonVars, turnVars>>

\* views.py:184 and services.py:60-126: without a client the service answers
\* an error at once; with one it calls generate_content, with no timeout in
\* its configuration (services.py:26-29, 107-126), and blocks on the answer
CallAI(w) ==
    /\ workers[w].pc = "call_ai"
    /\ workers' = [workers EXCEPT ![w] =
                      IF client = "none"
                      THEN Worker("read_fallback", 0, TRUE)
                      ELSE Worker("awaiting_ai", 0, FALSE)]
    /\ UNCHANGED <<windowVars, client, caching, now, pureVars, frameVars, horizonVars, turnVars>>

\* The AI capability answers the call: generate_content returns or raises.
\* views.py:204: on 'error' in ai_result the view goes on to count a fallback
AIAnswers(w) ==
    /\ workers[w].pc = "awaiting_ai"
    /\ \E failed \in BOOLEAN :
          workers' = [workers EXCEPT ![w] =
                         IF failed THEN Worker("read_fallback", 0, TRUE)
                         ELSE Worker("done", 0, FALSE)]
    /\ UNCHANGED <<windowVars, client, caching, now, pureVars, frameVars, horizonVars, turnVars>>

\* monitoring.py:78: count = cache.get(FALLBACK_COUNT_KEY, 0)
ReadFallbackCount(w) ==
    /\ workers[w].pc = "read_fallback"
    /\ workers' = [workers EXCEPT ![w] = Worker("write_fallback", metrics.fallbacks, TRUE)]
    /\ UNCHANGED <<windowVars, client, caching, now, pureVars, frameVars, horizonVars, turnVars>>

\* monitoring.py:79: cache.set(FALLBACK_COUNT_KEY, count + 1, DAY_SECONDS),
\* after which the view answers the request
WriteFallbackCount(w) ==
    /\ workers[w].pc = "write_fallback"
    /\ metrics' = [metrics EXCEPT !.fallbacks = workers[w].count + 1]
    /\ workers' = [workers EXCEPT ![w] = Worker("done", 0, TRUE)]
    /\ UNCHANGED <<windowVars, client, caching, now, pureVars, cache, req, ai, reply, resp,
                   horizonVars, turnVars>>

\* A step of the server on request w
WorkerStep(w) ==
    \/ ReadRequestCount(w)
    \/ WriteRequestCount(w)
    \/ CallAI(w)
    \/ ReadFallbackCount(w)
    \/ WriteFallbackCount(w)

InitWorkers ==
    /\ client \in {"ok", "none"}
    /\ caching = TRUE
    /\ cache = <<>>
    /\ metrics = NoMetrics
    /\ req = BaseRequest
    /\ ai = NoService
    /\ reply = NoReply
    /\ resp = NoResponse
    /\ hreq = NoHorizon
    /\ hres = NoHorizon
    /\ treq = NoTurn
    /\ tres = NoTurn
    /\ now = 0
    /\ samples = NoSamples
    /\ workers = [w \in 1..MaxWorkers |-> Worker("start", 0, FALSE)]
    /\ arg = NoArg
    /\ ret = NoRet

NextWorkers ==
    \E w \in 1..MaxWorkers :
        \/ ReadRequestCount(w)
        \/ WriteRequestCount(w)
        \/ CallAI(w)
        \/ AIAnswers(w)
        \/ ReadFallbackCount(w)
        \/ WriteFallbackCount(w)

\* The server keeps running every request it has; nothing obliges the AI
\* capability to answer
SpecWorkers ==
    /\ InitWorkers
    /\ [][NextWorkers]_vars
    /\ \A w \in 1..MaxWorkers : WF_vars(WorkerStep(w))

-----------------------------------------------------------------------------
(* analyze_frame while the cache store may be unavailable.  The AI outcomes *)
(* are those the view handles, so that a request that is not answered is    *)
(* not answered because of the store.                                       *)

OutageRequests ==
    {BaseRequest,
     [BaseRequest EXCEPT !.thought_signature = "sigA"],
     [BaseRequest EXCEPT !.image = "bad_b64"],
     [BaseRequest EXCEPT !.image = "short"]}

OutageOutcomes ==
    {Outcome("transport_error", NoToken, NoData),
     Outcome("bad_json", "sigB", NoData),
     Outcome("object", "sigB",
             AIData(Text("Turn right towards the yellow cafe building"),
                    Num(450), Text("Sunny's Cafe"), Num(85))),
     Outcome("object", NoToken, AIData(Text("Keep going"), Missing, Missing, Missing))}

HandleFrameOutage ==
    \E r \in OutageRequests, nearby \in NearbyAnswers, outcome \in OutageOutcomes,
       store \in StoreStates :
        AnalyzeFrame(r, nearby, outcome, store)

NextOutage == HandleFrameOutage

SpecOutage == Init /\ [][NextOutage]_vars

-----------------------------------------------------------------------------
(* analyze_frame over time: requests alternate with the passing of time,    *)
(* which expires the entries of the Result Cache.                           *)

\* headings 0 and 7 fall into the bucket of 0 degrees and 8 into that of 15;
\* latitudes -0.09170 and -0.09174 both round to -0.0917
TTLRequests ==
    {BaseRequest,
     [BaseRequest EXCEPT !.heading = 7],
     [BaseRequest EXCEPT !.heading = 8],
     [BaseRequest EXCEPT !.latitude = -9174],
     [BaseRequest EXCEPT !.thought_signature = "sigA"]}

TTLNearby == {<<>>, <<Waypoint("Sunny's Cafe", 100, 3012)>>}

TTLOutcomes ==
    {Outcome("transport_error", NoToken, NoData),
     Outcome("object", "sigB",
             AIData(Text("Turn right towards the yellow cafe building"),
                    Num(450), Text("Sunny's Cafe"), Num(85)))}

HandleFrameInTime ==
    \E r \in TTLRequests, nearby \in TTLNearby, outcome \in TTLOutcomes :
        AnalyzeFrame(r, nearby, outcome, "up")

\* seconds that pass between two requests
TickSteps == {100, 200}

Tick ==
    /\ now < MaxTime
    /\ \E d \in TickSteps : now' = now + d
    /\ UNCHANGED <<windowVars, client, caching, workerVars, pureVars, frameVars,
                   horizonVars, turnVars>>

NextTTL == HandleFrameInTime \/ Tick

SpecTTL == Init /\ [][NextTTL]_vars

-----------------------------------------------------------------------------
(* The helper functions of views.py on their own: arguments drawn, the      *)
(* helper applied once.                                                     *)

\* distance: centimetres for format_distance, metres for
\* calculate_visual_height
HelperArgs(fn, heading, bearing, adjustment, nearby, destination, distance) ==
    [fn |-> fn, heading |-> heading, bearing |-> bearing,
     adjustment |-> adjustment, nearby |-> nearby, destination |-> destination,
     distance |-> distance]

\* what a helper returns: a direction, a list of instructions, a text or a
\* number
HelperRet(direction, instructions, text, number) ==
    [direction |-> direction, instructions |-> instructions, text |-> text,
     number |-> number]

\* headings as the request serializer admits them, bearings as
\* calculate_bearing returns them, in whole degrees
DirectionArgs ==
    {HelperArgs("get_direction_from_bearing", h, b, 0, <<>>, "none", 0) :
        h \in {0, 90, 350, 360}, b \in 0..359}

\* bearing adjustments of -180.0 to 180.0 degrees, in tenths
InferArgs ==
    {HelperArgs("infer_direction_from_bearing", 0, 0, d, <<>>, "none", 0) :
        d \in -1800..1800}

FallbackArgs ==
    {HelperArgs("get_enhanced_fallback_instructions", h, 0, 0, nearby, destination, 0) :
        h \in {0, 90}, nearby \in NearbyAnswers,
        destination \in {"none", "", "Market", "Sunny's Cafe", "Gate"}}

\* distances in centimetres: every whole metre up to 1100 m, some between,
\* and some of kilometres
FormatArgs ==
    {HelperArgs("format_distance", 0, 0, 0, <<>>, "none", cm) :
        cm \in {100 * m : m \in 0..1100}
               \cup {3050, 3099, 4999, 72999, 99999, 104900, 420000, 1234500}}

\* distances in metres
VisualArgs ==
    {HelperArgs("calculate_visual_height", 0, 0, 0, <<>>, "none", d) :
        d \in {250 * k : k \in 0..40}
              \cup {1, 999, 1001, 5999, 6001, 50000, 100000}}

InitHelpers ==
    /\ client = "ok"
    /\ caching = TRUE
    /\ cache = <<>>
    /\ metrics = NoMetrics
    /\ req = BaseRequest
    /\ ai = NoService
    /\ reply = NoReply
    /\ resp = NoResponse
    /\ hreq = NoHorizon
    /\ hres = NoHorizon
    /\ treq = NoTurn
    /\ tres = NoTurn
    /\ now = 0
    /\ samples = NoSamples
    /\ workers = NoWorkers
    /\ arg \in DirectionArgs \cup InferArgs \cup FallbackArgs \cup FormatArgs
               \cup VisualArgs
    /\ ret = NoRet

ApplyGetDirection ==
    /\ ret = NoRet
    /\ arg.fn = "get_direction_from_bearing"
    /\ ret' = HelperRet(get_direction_from_bearing(arg.heading, arg.bearing), <<>>, "", 0)
    /\ UNCHANGED <<windowVars, client, caching, now, workerVars, frameVars, horizonVars,
                   turnVars, arg>>

ApplyInferDirection ==
    /\ ret = NoRet
    /\ arg.fn = "infer_direction_from_bearing"
    /\ ret' = HelperRet(infer_direction_from_bearing(arg.adjustment), <<>>, "", 0)
    /\ UNCHANGED <<windowVars, client, caching, now, workerVars, frameVars, horizonVars,
                   turnVars, arg>>

\* views.py:175-176 and 209-214: the view hands the planner the destination
\* of the request, or the name of the nearest waypoint when there is none
ApplyFallback ==
    /\ ret = NoRet
    /\ arg.fn = "get_enhanced_fallback_instructions"
    /\ LET instructions ==
               get_enhanced_fallback_instructions(
                   arg.heading, arg.nearby, DestinationOf(arg, arg.nearby))
       IN  ret' = HelperRet("", instructions, "", 0)
    /\ UNCHANGED <<windowVars, client, caching, now, workerVars, frameVars, horizonVars,
                   turnVars, arg>>

ApplyFormatDistance ==
    /\ ret = NoRet
    /\ arg.fn = "format_distance"
    /\ ret' = HelperRet("", <<>>, format_distance(arg.distance), 0)
    /\ UNCHANGED <<windowVars, client, caching, now, workerVars, frameVars, horizonVars,
                   turnVars, arg>>

ApplyVisualHeight ==
    /\ ret = NoRet
    /\ arg.fn = "calculate_visual_height"
    /\ ret' = HelperRet("", <<>>, "", calculate_visual_height(arg.distance))
    /\ UNCHANGED <<windowVars, client, caching, now, workerVars, frameVars, horizonVars,
                   turnVars, arg>>

NextHelpers ==
    \/ ApplyGetDirection
    \/ ApplyInferDirection
    \/ ApplyFallback
    \/ ApplyFormatDistance
    \/ ApplyVisualHeight

SpecHelpers == InitHelpers /\ [][NextHelpers]_vars

-----------------------------------------------------------------------------
(* The cache key of analyze_frame on its own: two requests drawn, the key   *)
(* of each computed.                                                        *)

\* latitudes and longitudes on both sides of a tie of round(x, 4), in units
\* of 0.00001 degree; headings on both sides of the bucket limits at 7.5,
\* 22.5 and 352.5 degrees, and the two ends 0 and 360
KeyRequests ==
    {[BaseRequest EXCEPT !.latitude = lat, !.longitude = lon, !.heading = h] :
        lat \in {-9176, -9175, -9174, -9171, -9170, -9166, -9165, -9164},
        lon \in {3476893, 3476895, 3476896},
        h \in {0, 7, 8, 14, 16, 22, 23, 353, 360}}

KeyArgs(a, b) == [fn |-> "cache_key", a |-> a, b |-> b]

InitKey ==
    /\ client = "ok"
    /\ caching = TRUE
    /\ cache = <<>>
    /\ metrics = NoMetrics
    /\ req = BaseRequest
    /\ ai = NoService
    /\ reply = NoReply
    /\ resp = NoResponse
    /\ hreq = NoHorizon
    /\ hres = NoHorizon
    /\ treq = NoTurn
    /\ tres = NoTurn
    /\ now = 0
    /\ samples = NoSamples
    /\ workers = NoWorkers
    /\ arg \in {KeyArgs(a, b) : a \in KeyRequests, b \in KeyRequests}
    /\ ret = NoRet

ApplyCacheKey ==
    /\ ret = NoRet
    /\ ret' = [a |-> CacheKey(arg.a), b |-> CacheKey(arg.b)]
    /\ UNCHANGED <<windowVars, client, caching, now, workerVars, frameVars, horizonVars,
                   turnVars, arg>>

NextKey == ApplyCacheKey

SpecKey == InitKey /\ [][NextKey]_vars

-----------------------------------------------------------------------------
(* The validation of analyze_frame: one request, with coordinates in and    *)
(* out of range, handled from the state InitParsed.                         *)

\* latitudes at and beyond +-90 degrees, longitudes at and beyond +-180, in
\* units of 0.00001 degree
ValidationRequests ==
    {[BaseRequest EXCEPT !.latitude = lat, !.longitude = lon, !.image = i] :
        lat \in {-9000001, -9000000, -9170, 9000000, 9000001, 12345678},
        lon \in {-18000001, -18000000, 3476895, 18000000, 18000001},
        i \in {"jpeg", "short"}}

HandleValidatedFrame ==
    \E r \in ValidationRequests, nearby \in TTLNearby, outcome \in TTLOutcomes :
        AnalyzeFrame(r, nearby, outcome, "up")

NextValidation == HandleValidatedFrame

SpecValidation == InitParsed /\ [][NextValidation]_vars

-----------------------------------------------------------------------------
(* analyze_frame under concurrency, on the Result Cache: MaxWorkers          *)
(* requests without a token and with the same cache key are in flight, each  *)
(* a thread or process of the server working through the view.  The steps    *)
(* are the view's calls to the Result Cache and to the AI service; the calls *)
(* to the Metrics Recorder, whose interleavings SpecWorkers holds, are taken *)
(* together with the statement before them.                                  *)

FlightRequest == BaseRequest

FlightNearby == <<Waypoint("Sunny's Cafe", 100, 3012)>>

FlightOutcomes ==
    {Outcome("transport_error", NoToken, NoData),
     Outcome("not_object", "sigB", NoData),
     Outcome("object", "sigB",
             AIData(Text("Turn right towards the yellow cafe building"),
                    Num(450), Text("Sunny's Cafe"), Num(85))),
     Outcome("object", "sigC", AIData(Text("Keep going"), Num(0), Missing, Num(60))),
     Outcome("object", "sigB",
             AIData(Text("Keep going"), Null, Text("Unknown"), Num(150)))}

\* A request in flight: the statement it is at, the steps it has taken
\* ("lookup", "ai", "fallback", "store"), what the service answered and the
\* response_data it has built or was served
Flight(pc, steps, svc, data) ==
    [pc |-> pc, steps |-> steps, svc |-> svc, data |-> data]

\* views.py:116-162: the request is counted and compressed, and the Result
\* Cache is asked; a hit answers the request
LookupCache(w) ==
    /\ workers[w].pc = "lookup"
    /\ LET key == CacheKey(FlightRequest)
           counted == [metrics EXCEPT !.requests = @ + 1]
       IN  /\ metrics' = IF CompressionRecorded(FlightRequest)
                         THEN [counted EXCEPT !.compressions = @ + 1]
                         ELSE counted
           /\ IF ServedFromCache(FlightRequest)
              THEN /\ workers' = [workers EXCEPT ![w] =
                          Flight("done", <<"lookup">>, NoService,
                                 [CacheGet(cache, key) EXCEPT !.from_cache = "true"])]
                   /\ cache' = StoreAfterHit(cache, key)
              ELSE /\ workers' = [workers EXCEPT ![w] =
                          Flight("call_ai", <<"lookup">>, NoService, NoBody)]
                   /\ UNCHANGED cache
    /\ UNCHANGED <<windowVars, client, caching, now, pureVars, req, ai, reply, resp,
                   horizonVars, turnVars>>

\* views.py:166-195: the waypoints are fetched, the AI service is called and
\* its latency recorded
InvokeService(w) ==
    /\ workers[w].pc = "call_ai"
    /\ \E outcome \in FlightOutcomes :
          workers' = [workers EXCEPT ![w] =
              Flight("respond", workers[w].steps \o <<"ai">>,
                     analyze_navigation_frame(client, FlightRequest.image, outcome),
                     NoBody)]
    /\ metrics' = [metrics EXCEPT !.latencies = @ + 1]
    /\ UNCHANGED <<windowVars, client, caching, now, pureVars, cache, req, ai, reply, resp,
                   horizonVars, turnVars>>

\* views.py:204-243: response_data is built, by the Fallback Planner after a
\* failed analysis; an exception of the parsed path ends the request
BuildResponse(w) ==
    /\ workers[w].pc = "respond"
    /\ LET svc == workers[w].svc
       IN  IF svc.error # ""
           THEN /\ workers' = [workers EXCEPT ![w] =
                       Flight("store", workers[w].steps \o <<"fallback">>, svc,
                              FallbackResponseData(FlightRequest, FlightNearby, svc))]
                /\ metrics' = [metrics EXCEPT !.fallbacks = @ + 1]
           ELSE IF ParsedPathRaises(svc)
           THEN /\ workers' = [workers EXCEPT ![w] =
                       Flight("raised", workers[w].steps, svc, NoBody)]
                /\ UNCHANGED metrics
           ELSE /\ workers' = [workers EXCEPT ![w] =
                       Flight("store", workers[w].steps, svc,
                              ParsedResponseData(FlightRequest, FlightNearby, svc))]
                /\ UNCHANGED metrics
    /\ UNCHANGED <<windowVars, client, caching, now, pureVars, cache, req, ai, reply, resp,
                   horizonVars, turnVars>>

\* views.py:246-254: the result is stored and the request answered
StoreResult(w) ==
    /\ workers[w].pc = "store"
    /\ IF StoresResult(FlightRequest)
       THEN /\ cache' = CacheSet(cache, CacheKey(FlightRequest), workers[w].data,
                                 NAVIGATION_CACHE_TIMEOUT)
            /\ workers' = [workers EXCEPT ![w] =
                  Flight("done", workers[w].steps \o <<"store">>,
                         workers[w].svc, workers[w].data)]
       ELSE /\ UNCHANGED cache
            /\ workers' = [workers EXCEPT ![w] =
                  Flight("done", workers[w].steps, workers[w].svc, workers[w].data)]
    /\ UNCHANGED <<windowVars, client, caching, now, pureVars, metrics, req, ai, reply, resp,
                   horizonVars, turnVars>>

InitFlight ==
    /\ client \in {"ok", "none"}
    /\ caching = TRUE
    /\ cache = <<>>
    /\ metrics = NoMetrics
    /\ req = BaseRequest
    /\ ai = NoService
    /\ reply = NoReply
    /\ resp = NoResponse
    /\ hreq = NoHorizon
    /\ hres = NoHorizon
    /\ treq = NoTurn
    /\ tres = NoTurn
    /\ now = 0
    /\ samples = NoSamples
    /\ workers = [w \in 1..MaxWorkers |-> Flight("lookup", <<>>, NoService, NoBody)]
    /\ arg = NoArg
    /\ ret = NoRet

NextFlight ==
    \E w \in 1..MaxWorkers :
        \/ LookupCache(w)
        \/ InvokeService(w)
        \/ BuildResponse(w)
        \/ StoreResult(w)

SpecFlight == InitFlight /\ [][NextFlight]_vars

-----------------------------------------------------------------------------
(* The latency list of the Metrics Recorder over time: samples are recorded  *)
(* as requests reach views.py:195, the clock advances by quarters of an hour *)
(* and the summary may be read at any time.  record_ai_error is called only  *)
(* from the handler of views.py:197, which nothing the service does can      *)
(* reach, so the list of errors stays empty and is left out.                 *)

HOUR_SECONDS == 3600

\* seconds that pass between two readings of the clock
WindowSteps == {900}

\* cache.get(AI_LATENCY_KEY, []): the list, unless the entry has expired
StoredLatencies(s) == IF now < s.expires THEN s.latencies ELSE <<>>

\* monitoring.py:44: [l for l in latencies if l['timestamp'] > cutoff]
KeepAfter(list, cutoff) == SelectSeq(list, LAMBDA t : t > cutoff)

\* monitoring.py:33-51, a sample being the time it was recorded at
record_ai_latency(s) ==
    LET latencies == Append(StoredLatencies(s), now)
        cutoff == now - HOUR_SECONDS
    IN  [latencies |-> KeepAfter(latencies, cutoff),
         expires |-> now + HOUR_SECONDS]

\* monitoring.py:118-120 and 135-136: the samples get_metrics_summary
\* averages and counts as recent_requests
get_metrics_summary(s) == StoredLatencies(s)

RecordLatency ==
    /\ Len(StoredLatencies(samples)) < MaxSamples
    /\ samples' = record_ai_latency(samples)
    /\ UNCHANGED <<client, caching, now, workerVars, pureVars, frameVars,
                   horizonVars, turnVars>>

TickWindow ==
    /\ now < MaxClock
    /\ \E d \in WindowSteps : now' = now + d
    /\ UNCHANGED <<windowVars, client, caching, workerVars, pureVars, frameVars,
                   horizonVars, turnVars>>

NextWindow == RecordLatency \/ TickWindow

SpecWindow == Init /\ [][NextWindow]_vars

-----------------------------------------------------------------------------
(* Claims about analyze_frame *)

\* The request handled last got as far as the AI Orchestrator and the
\* service reported a failure ('error' in ai_result)
AIFailed == ai.error # ""

\* The service reported success with a JSON object (state PARSED)
AIParsed == ai.error = "" /\ ai.invoked /\ ai.shape = "dict"

WellFormedInstruction(body) ==
    /\ Len(body.instructions) >= 1
    /\ \A i \in 1..Len(body.instructions) :
          /\ body.instructions[i].direction \in Directions
          /\ body.instructions[i].distance >= 0
    /\ IsNum(body.confidence)
    /\ 0 <= body.confidence.v /\ body.confidence.v <= 100

\* C1: whenever the AI capability fails during analyze_frame (client not
\* initialised, image decode error, transport or model error, unparseable
\* output), the view still answers 200 with an instruction whose direction is
\* one of forward/left/right/turn-around and whose confidence is in [0,1];
\* the failure does not leave the view as an exception.
C1_FailureStillAnswers ==
    AIFailed =>
        /\ resp.status = 200
        /\ resp.source = "fallback"
        /\ WellFormedInstruction(resp.body)

\* C1 witness: the model was invoked and failed, and the fallback turned the
\* user around towards the nearest waypoint
C1_Witness ==
    /\ AIFailed
    /\ ai.invoked
    /\ resp.source = "fallback"
    /\ resp.body.instructions[1].direction = "turn-around"

\* C2: whenever the AI capability returns parseable output, whatever values
\* or types the model put in its fields, the view answers without raising,
\* with a direction among the four, a distance >= 0 and a confidence in [0,1].
C2_ParsedAlwaysWellFormed ==
    AIParsed =>
        /\ resp.status = 200
        /\ resp.source = "ai"
        /\ WellFormedInstruction(resp.body)

\* The request carries a reasoning-continuity token: a thought_signature that
\* is absent, null or empty is no token
CarriesToken(r) == r.thought_signature # NoToken /\ r.thought_signature # ""

\* C3: a request that carries a reasoning-continuity token is never answered
\* from the Result Cache: the view computes response_data afresh, with
\* from_cache False, and no body marked from_cache goes out.
C3_TokenNeverServedFromCache ==
    (CarriesToken(req) /\ resp.source # "none") =>
        /\ resp.source # "cache"
        /\ resp.body.from_cache # "true"
        /\ resp.status = 200 => resp.data.from_cache = "false"

\* C3 witness: a token-carrying request was answered afresh although the
\* cache holds an entry under its key
C3_Witness ==
    /\ CarriesToken(req)
    /\ caching
    /\ CacheHas(cache, CacheKey(req))
    /\ resp.source \in {"ai", "fallback"}

\* A step that handles a request
Handled == metrics'.requests = metrics.requests + 1

\* C4: handling a request that carries a reasoning-continuity token leaves
\* the Result Cache as it was, whether the AI succeeded or the fallback ran.
C4_TokenRequestLeavesCache ==
    [][(Handled /\ CarriesToken(req')) => cache' = cache]_vars

\* C4 witness: with caching enabled, a token-carrying request was answered by
\* the fallback and no entry stands under its key
C4_Witness ==
    /\ CarriesToken(req)
    /\ caching
    /\ resp.source = "fallback"
    /\ ~CacheHas(cache, CacheKey(req))

-----------------------------------------------------------------------------
(* Claims about the Terrain Gate and the Horizon Refiner *)

\* One of the five elevation lookups failed: no token is configured, the
\* tile answer was not 200, or fetching or decoding raised
SomeLookupFailed(e) ==
    \/ ~e.configured
    \/ \E i \in 1..Len(e.lookups) : e.lookups[i].kind # "tile"

\* C5: if any of the elevation lookups made by the Terrain Gate fails,
\* including when all five fail, should_skip_gemini_analysis answers
\* skip = false.
C5_LookupFailureNeverSkips ==
    (hres # NoHorizon /\ SomeLookupFailed(hreq)) => ~hres.skip

\* The view called the service and the AI stage failed: the service reported
\* an error, or handed back data the view could not read
HorizonAIFailed ==
    /\ hres # NoHorizon
    /\ hres.called
    /\ (hres.result.error # "" \/ hres.result.shape # "dict")

\* C6: whenever the AI invocation of the Horizon Refiner fails at any stage,
\* the service's failing result and the view's response carry the original
\* visible_pois list unmodified together with an error indicator.
C6_FailureKeepsPois ==
    HorizonAIFailed =>
        /\ hres.result.error # "" =>
              hres.result.refined_pois = Present(hreq.visible_pois)
        /\ hres.response.error # ""
        /\ hres.response.refined_pois = hreq.visible_pois

\* C6 witness: the model was invoked for two POIs and failed, and the
\* response carries both
C6_Witness ==
    /\ HorizonAIFailed
    /\ hres.result.invoked
    /\ hres.result.error # ""
    /\ hreq.visible_pois = <<KisumuCity, MountElgon>>
    /\ hres.response.refined_pois = <<KisumuCity, MountElgon>>

\* The Terrain Gate was consulted and reported skip = true
GateSkipped ==
    /\ hres # NoHorizon
    /\ hres.called
    /\ hreq.dem_available
    /\ should_skip_gemini_analysis(hreq.configured, hreq.lookups).skip

\* C7: when the Terrain Gate reports skip = true, the Horizon Refiner returns
\* a successful result whose refined_pois is the input visible_pois, in
\* content and order, whose skyline feature list is empty and which carries
\* a skipped_reason, also when the AI client is not initialised.
C7_SkipPassesThrough ==
    GateSkipped =>
        /\ hres.result.success
        /\ hres.result.error = ""
        /\ hres.result.data.refined_pois = Present(hreq.visible_pois)
        /\ hres.result.data.skyline_features = Present(<<>>)
        /\ hres.result.skipped_reason # ""
        /\ hres.response.status = 200
        /\ hres.response.refined_pois = hreq.visible_pois
        /\ hres.response.skyline_features = <<>>

\* C7 witness: the gate skipped while the client is not initialised, and two
\* POIs passed through
C7_Witness ==
    /\ GateSkipped
    /\ client = "none"
    /\ hreq.visible_pois = <<KisumuCity, MountElgon>>
    /\ hres.result.success

\* The model was invoked and answered a JSON object without refined_pois
ParsedWithoutRefined ==
    /\ hres # NoHorizon
    /\ hres.called
    /\ hres.result.invoked
    /\ hreq.outcome.kind = "object"
    /\ ~hreq.outcome.data.refined_pois.present

\* C8: when the AI's horizon result is parseable but omits refined_pois, the
\* Horizon Refiner returns a successful result whose refined_pois is the
\* original visible_pois list.
C8_OmittedRefinedPois ==
    ParsedWithoutRefined =>
        /\ hres.result.success
        /\ hres.result.data.refined_pois = Present(hreq.visible_pois)
        /\ hres.response.status = 200
        /\ hres.response.success
        /\ hres.response.refined_pois = hreq.visible_pois

\* C8 witness: the model answered a skyline but no refined_pois for two POIs
C8_Witness ==
    /\ ParsedWithoutRefined
    /\ hreq.outcome.data.skyline_features.present
    /\ hreq.visible_pois = <<KisumuCity, MountElgon>>
    /\ hres.result.success

-----------------------------------------------------------------------------
(* Claims about the Turn-Guidance Planner *)

\* C9: generate_turn_guidance always returns text, alignment_status and
\* turn_degrees, and alignment_status is always one of aligned /
\* turning_left / turning_right as derived from the heading delta, whether
\* or not the AI client is initialised, available, or fails.
C9_StatusAlwaysDerived ==
    tres # NoTurn =>
        /\ tres.text # ""
        /\ tres.alignment_status \in {"aligned", "turning_left", "turning_right"}
        /\ tres.alignment_status =
              alignment_status_of(heading_diff_of(treq.user_heading,
                                                  treq.target_bearing))

\* The delta of the claim: (target_bearing - user_heading + 360) mod 360,
\* brought into (-180, 180], in thousandths of a degree
ClaimedDelta ==
    LET d == (treq.target_bearing - treq.user_heading + 360000) % 360000
    IN  IF d <= 180000 THEN d ELSE d - 360000

\* C10: for all headings and bearings in [0,360), generate_turn_guidance
\* reports the delta as turn_degrees (to the two decimals it rounds to) and
\* sets alignment_status to aligned iff |delta| < 5, otherwise turning_left
\* iff delta > 0 and turning_right iff delta < 0.
C10_DeltaAndStatus ==
    tres # NoTurn =>
        /\ Abs(tres.turn_degrees - ClaimedDelta) <= 5
        /\ (tres.alignment_status = "aligned") <=> (Abs(ClaimedDelta) < 5000)
        /\ Abs(ClaimedDelta) >= 5000 =>
              /\ (tres.alignment_status = "turning_left") <=> (ClaimedDelta > 0)
              /\ (tres.alignment_status = "turning_right") <=> (ClaimedDelta < 0)

-----------------------------------------------------------------------------
(* Claims about the reasoning token and the Metrics Recorder *)

\* C11: whenever the AI analysis of a frame fails, at any stage and also when
\* the capability handed back a token next to output that is no JSON, the
\* response of analyze_frame carries no reasoning token: response_data holds
\* None, and the body sent holds None or leaves the key out.
C11_FailedTurnCarriesNoToken ==
    AIFailed =>
        /\ resp.data.thought_signature = NoToken
        /\ resp.body.thought_signature \in {NoToken, "absent"}

\* C11 witness: the capability answered a token with unparseable output, and
\* the fallback answered the request
C11_Witness ==
    /\ AIFailed
    /\ ai.invoked
    /\ ai.sig = "sigB"
    /\ resp.source = "fallback"

\* C12: when the AI analysis of a frame succeeds and the capability returned
\* a reasoning token, the body delivered to the caller of analyze_frame
\* carries that token unchanged.
C12_SuccessDeliversToken ==
    (resp.source = "ai" /\ ai.sig \notin {"absent", NoToken}) =>
        resp.body.thought_signature = ai.sig

\* The request of this step got as far as the AI Orchestrator
ReachedOrchestrator == ai'.error # "" \/ ai'.invoked

\* C13: for every analyze_frame request that reaches the AI Orchestrator a
\* latency sample is recorded, whether the AI call succeeds or fails, and
\* whenever the AI call fails an AI error entry is recorded as well.
C13_LatencyAndErrorRecorded ==
    [][(Handled /\ ReachedOrchestrator) =>
          /\ metrics'.latencies = metrics.latencies + 1
          /\ ai'.error # "" => metrics'.errors = metrics.errors + 1]_vars

\* Every request in flight has been answered
AllAnswered == \A w \in 1..Len(workers) : workers[w].pc = "done"

\* The requests whose AI analysis failed
FailedWorkers == {w \in 1..Len(workers) : workers[w].failed}

\* C14: with analyze_frame requests running concurrently, in every
\* interleaving the request counter ends up at the number of requests handled
\* and the fallback counter at the number of failed AI analyses.
C14_NoIncrementLost ==
    (workers # NoWorkers /\ AllAnswered) =>
        /\ metrics.requests = Len(workers)
        /\ metrics.fallbacks = Cardinality(FailedWorkers)

\* C15: every analyze_frame request with valid input eventually returns a
\* response, even if the AI capability never answers the call made for it.
C15_EveryRequestAnswered ==
    \A w \in 1..MaxWorkers :
        (workers # NoWorkers /\ workers[w].pc = "awaiting_ai")
            ~> (workers[w].pc = "done")

-----------------------------------------------------------------------------
(* Claims about the Result Cache *)

\* C16: when the cache store is unavailable (its get or set fails), the
\* request is still answered through the AI Orchestrator or the Fallback
\* Planner (or from the cache) with a well-formed instruction: no failure of
\* the store reaches the caller.
C16_StoreFailureNotSurfaced ==
    (resp.source # "none" /\ RequestValid(req)) =>
        /\ resp.status = 200
        /\ resp.source \in {"cache", "ai", "fallback"}
        /\ WellFormedInstruction(resp.body)

\* C17: once a token-free request has stored its result, a later token-free
\* request with an equal quantized key that arrives before the entry's TTL
\* (NAVIGATION_CACHE_TIMEOUT) is over is answered with what was stored, marked
\* from_cache, with neither the AI capability nor the Fallback Planner run;
\* one that arrives when the TTL is over is a miss and is computed afresh.
C17_HitUntilExpiry ==
    [][(/\ Handled
        /\ caching
        /\ RequestValid(req')
        /\ ~CarriesToken(req')
        /\ CacheKey(req') \in DOMAIN cache) =>
          LET entry == cache[CacheKey(req')]
          IN  IF now < entry.expires
              THEN /\ resp'.source = "cache"
                   /\ resp'.status = 200
                   /\ resp'.body = [entry.value EXCEPT !.from_cache = "true"]
                   /\ ai' = NoService
                   /\ metrics'.latencies = metrics.latencies
                   /\ metrics'.fallbacks = metrics.fallbacks
                   /\ cache' = cache
              ELSE /\ resp'.source # "cache"
                   /\ ai'.error # "" \/ ai'.invoked
                   /\ cache'[CacheKey(req')].expires = now + NAVIGATION_CACHE_TIMEOUT]_vars

\* C17 witness: time has passed since the entry was stored, and a request
\* with another heading of the same 15-degree bucket was answered from it
C17_Witness ==
    /\ resp.source = "cache"
    /\ resp.body.from_cache = "true"
    /\ req.heading = 7
    /\ now > 0
    /\ CacheKey(req) \in DOMAIN cache
    /\ cache[CacheKey(req)].expires = NAVIGATION_CACHE_TIMEOUT

-----------------------------------------------------------------------------
(* Claims about the helper functions *)

Returned(fn) == ret # NoRet /\ arg.fn = fn

\* C18: the Fallback Planner maps delta = (bearing - heading + 360) mod 360
\* to one direction for every delta in [0,360): forward when delta < 45 or
\* delta > 315, right when 45 <= delta < 135, turn-around when
\* 135 <= delta < 225, and left otherwise, so also at delta = 315.
C18_FallbackDeltaMapping ==
    Returned("get_direction_from_bearing") =>
        LET delta == (arg.bearing - arg.heading + 360) % 360
        IN  /\ ret.direction \in Directions
            /\ (ret.direction = "forward") <=> (delta < 45 \/ delta > 315)
            /\ (ret.direction = "right") <=> (45 <= delta /\ delta < 135)
            /\ (ret.direction = "turn-around") <=> (135 <= delta /\ delta < 225)
            /\ (ret.direction = "left") <=> (225 <= delta /\ delta <= 315)

\* C18 witness: a difference of exactly 315 degrees came out as left
C18_Witness ==
    /\ Returned("get_direction_from_bearing")
    /\ (arg.bearing - arg.heading + 360) % 360 = 315
    /\ ret.direction = "left"

\* C19: on the PARSED path a bearing_adjustment d in [-180,180] is mapped to
\* one direction: forward when |d| <= 22.5, right when 22.5 < d <= 90, left
\* when -90 <= d < -22.5, and turn-around when |d| > 90.
C19_ParsedAdjustmentMapping ==
    Returned("infer_direction_from_bearing") =>
        LET d == arg.adjustment
        IN  /\ ret.direction \in Directions
            /\ (ret.direction = "forward") <=> (-225 <= d /\ d <= 225)
            /\ (ret.direction = "right") <=> (225 < d /\ d <= 900)
            /\ (ret.direction = "left") <=> (-900 <= d /\ d < -225)
            /\ (ret.direction = "turn-around") <=> (d > 900 \/ d < -900)

\* C19 witness: an adjustment of exactly 22.5 degrees came out as forward
C19_Witness ==
    /\ Returned("infer_direction_from_bearing")
    /\ arg.adjustment = 225
    /\ ret.direction = "forward"

\* The waypoint the claim has the instruction refer to: the one of the nearby
\* set that the destination hint names, otherwise the nearest
ClaimedTarget ==
    IF \E i \in 1..Len(arg.nearby) : arg.nearby[i].name = arg.destination
    THEN arg.nearby[CHOOSE i \in 1..Len(arg.nearby) :
                        arg.nearby[i].name = arg.destination]
    ELSE arg.nearby[1]

\* C20: in the Fallback Planner, when the destination hint names a waypoint
\* of the nearby set, direction and distance are computed to that waypoint,
\* otherwise to the nearest one, and the landmark named in the message is the
\* waypoint that direction and distance refer to.
C20_HintedWaypointIsTarget ==
    (Returned("get_enhanced_fallback_instructions") /\ arg.nearby # <<>>) =>
        LET target == ClaimedTarget
            direction == get_direction_from_bearing(arg.heading, target.bearing)
            context == IF Len(arg.nearby) > 1
                       THEN " (with " \o arg.nearby[2].name \o " nearby)"
                       ELSE ""
        IN  /\ ret.instructions[1].direction = direction
            /\ ret.instructions[1].distance = Round1(target.dist)
            /\ ret.instructions[1].message =
                  Text(TitleOf(direction) \o " towards " \o target.name
                       \o " - about " \o format_distance(target.dist) \o context)

\* C21: the Fallback Planner always returns exactly one instruction: with
\* no waypoint within the radius the generic one (direction forward, distance
\* 0), with at least one waypoint an instruction whose direction is one of
\* forward/left/right/turn-around and whose distance is >= 0.
C21_FallbackOneInstruction ==
    Returned("get_enhanced_fallback_instructions") =>
        /\ Len(ret.instructions) = 1
        /\ ret.instructions[1].direction \in Directions
        /\ ret.instructions[1].distance >= 0
        /\ ret.instructions[1].message.t = "str"
        /\ ret.instructions[1].message.s # ""
        /\ arg.nearby = <<>> =>
              /\ ret.instructions[1].direction = "forward"
              /\ ret.instructions[1].distance = 0

\* C21 witness: no waypoint was near and the generic instruction came back
C21_Witness ==
    /\ Returned("get_enhanced_fallback_instructions")
    /\ arg.nearby = <<>>
    /\ Len(ret.instructions) = 1
    /\ ret.instructions[1].direction = "forward"
    /\ ret.instructions[1].distance = 0

-----------------------------------------------------------------------------
(* Claims about the cache key *)

\* x and y lie in the same cell of a grid of the given width: strictly
\* within half a width of the same multiple of it
SameCell(x, y, width) ==
    \E c \in ((x \div width) - 1)..((x \div width) + 1) :
        /\ 2 * Abs(x - c * width) < width
        /\ 2 * Abs(y - c * width) < width

C25_Heading360IsHeading0 ==
    Returned("cache_key") =>
        /\ 0 <= ret.a.heading /\ ret.a.heading < 360
        /\ (/\ arg.a.heading = 360
            /\ arg.b = [arg.a EXCEPT !.heading = 0]) =>
              ret.a = ret.b

-----------------------------------------------------------------------------
(* Claims about the Terrain Gate, all lookups succeeding *)

AllLookupsSucceed(e) ==
    /\ e.configured
    /\ \A i \in 1..Len(e.lookups) : e.lookups[i].kind = "tile"

\* The elevations of the five samples, in decimetres
Samples(e) == [i \in 1..Len(e.lookups) |-> get_elevation(TRUE, e.lookups[i])]

\* C23: when all five elevation lookups succeed, the Terrain Gate returns
\* skip = true exactly when max(samples) - min(samples) < 100 metres: all at
\* 100 m skip, one sample at 300 m among 100s does not, and a variation of
\* exactly 100 m does not.
C23_SkipIffVariationUnder100 ==
    (hres # NoHorizon /\ AllLookupsSucceed(hreq)) =>
        /\ hres.skip <=> (SeqMax(Samples(hreq)) - SeqMin(Samples(hreq)) < 1000)
        /\ Samples(hreq) = <<1000, 1000, 1000, 1000, 1000>> => hres.skip
        /\ Samples(hreq) = <<1000, 3000, 1000, 1000, 1000>> => ~hres.skip

\* C23 witness: the samples vary by exactly 100 m and the gate did not skip
C23_Witness ==
    /\ hres # NoHorizon
    /\ AllLookupsSucceed(hreq)
    /\ SeqMax(Samples(hreq)) - SeqMin(Samples(hreq)) = 1000
    /\ ~hres.skip

-----------------------------------------------------------------------------
(* Claims about the validation of a request *)

CoordinatesInRange(r) ==
    /\ -9000000 <= r.latitude /\ r.latitude <= 9000000
    /\ -18000000 <= r.longitude /\ r.longitude <= 18000000

\* C24: analyze_frame rejects a request whose latitude is outside [-90,90] or
\* whose longitude is outside [-180,180] with a validation error, before any
\* cache lookup, waypoint query or AI invocation takes place.
C24_CoordinatesValidated ==
    (resp.source # "none" /\ ~CoordinatesInRange(req)) =>
        /\ resp.status = 400
        /\ resp.source = "invalid"
        /\ ai = NoService
        /\ reply = NoReply
        /\ cache = <<>>

-----------------------------------------------------------------------------
(* Claims about the PARSED path *)

\* The capability answered a JSON object
RepliedObject == reply.kind = "object"

\* The object has all of instruction, bearing_adjustment and
\* landmark_identified
AllRequiredSupplied ==
    /\ reply.data.instruction.t # "missing"
    /\ reply.data.bearing_adjustment.t # "missing"
    /\ reply.data.landmark_identified.t # "missing"

\* What the claim has a field be after the filling: the value supplied, or
\* the default
FilledField(supplied, default) ==
    IF supplied.t = "missing" THEN default ELSE supplied

\* C26: when parseable model output lacks any of the required fields, the
\* missing fields take the defaults (Continue forward, 0, Unknown, and
\* confidence 0.5 if confidence is missing too), every field the model
\* supplied keeps its value, and the service reports a success, so that the
\* view does not fall back.
C26_MissingFieldsFilled ==
    (RepliedObject /\ ~AllRequiredSupplied) =>
        /\ ai.error = ""
        /\ ai.shape = "dict"
        /\ ai.data.instruction =
              FilledField(reply.data.instruction, Text("Continue forward"))
        /\ ai.data.bearing_adjustment =
              FilledField(reply.data.bearing_adjustment, Num(0))
        /\ ai.data.landmark_identified =
              FilledField(reply.data.landmark_identified, Text("Unknown"))
        /\ ai.data.confidence = FilledField(reply.data.confidence, Num(50))
        /\ ai.sig = reply.sig
        /\ resp.source # "fallback"
        /\ metrics.fallbacks = 0

\* C26 witness: the model supplied an instruction and a confidence but no
\* bearing_adjustment, and the view answered from the filled object
C26_Witness ==
    /\ RepliedObject
    /\ reply.data.instruction = Text("Keep going")
    /\ reply.data.bearing_adjustment.t = "missing"
    /\ reply.data.confidence = Num(85)
    /\ ai.data.instruction = Text("Keep going")
    /\ ai.data.bearing_adjustment = Num(0)
    /\ ai.data.confidence = Num(85)
    /\ resp.source = "ai"

\* C27: on the PARSED path the confidence of the analyze_frame response is
\* the confidence the model supplied, and 0.8 when the model supplied all the
\* required fields but no confidence.
C27_ConfidencePassedThrough ==
    (RepliedObject /\ resp.source = "ai") =>
        /\ reply.data.confidence.t # "missing" =>
              /\ resp.data.confidence = reply.data.confidence
              /\ resp.body.confidence = reply.data.confidence
        /\ (reply.data.confidence.t = "missing" /\ AllRequiredSupplied) =>
              /\ resp.data.confidence = Num(80)
              /\ resp.body.confidence = Num(80)

\* C27 witness: all required fields, no confidence, and 0.8 in the response
C27_Witness ==
    /\ RepliedObject
    /\ resp.source = "ai"
    /\ AllRequiredSupplied
    /\ reply.data.confidence.t = "missing"
    /\ resp.body.confidence = Num(80)

-----------------------------------------------------------------------------
(* Claims about format_distance and calculate_visual_height *)

\* A number of tenths written with one decimal
OneDecimalText(tenths) == ToString(tenths \div 10) \o "." \o ToString(tenths % 10)

\* C28: format_distance renders a distance of m metres as the whole-metre
\* value with 'm ahead' when m < 50, as the nearest multiple of 50 metres
\* with 'm away' when 50 <= m < 1000, and as kilometres with one decimal with
\* 'km away' when m >= 1000 (30 -> 30m ahead, 730 -> 750m away,
\* 4200 -> 4.2km away).
C28_FormatDistance ==
    Returned("format_distance") =>
        LET cm == arg.distance
        IN  /\ cm < 5000 => ret.text = ToString(cm \div 100) \o "m ahead"
            /\ (5000 <= cm /\ cm < 100000) =>
                  \E k \in 1..20 :
                      /\ 2 * Abs(k * 5000 - cm) <= 5000
                      /\ ret.text = ToString(k * 50) \o "m away"
            /\ cm >= 100000 =>
                  \E tenths \in (cm \div 10000)..((cm \div 10000) + 1) :
                      /\ 2 * Abs(tenths * 10000 - cm) <= 10000
                      /\ ret.text = OneDecimalText(tenths) \o "km away"
            /\ cm = 3000 => ret.text = "30m ahead"
            /\ cm = 73000 => ret.text = "750m away"
            /\ cm = 420000 => ret.text = "4.2km away"

\* C28 witness: 730 m came out as 750m away
C28_Witness ==
    /\ Returned("format_distance")
    /\ arg.distance = 73000
    /\ ret.text = "750m away"

\* max(5, 30 * 1000 / max(distance, 1000)), in thousandths of a unit
ClaimedScale(distance_m) ==
    LET d == IF distance_m > 1000 THEN distance_m ELSE 1000
        h == 30000000 \div d
    IN  IF h > 5000 THEN h ELSE 5000

-----------------------------------------------------------------------------
(* Claims about the state machine of the AI Orchestrator *)

\* The request handled last got as far as the AI service
ReachedService == resp.source \in {"fallback", "ai", "raised"}

\* C30: a failure to decode the transport image, or a client that is not
\* initialised, moves the request to FAILED without the AI capability being
\* invoked for it, and the request completes with the instruction of the
\* Fallback Planner.
C30_DecodeFailureSkipsModel ==
    (ReachedService /\ (client = "none" \/ req.image = "bad_b64")) =>
        /\ ~ai.invoked
        /\ reply = NoReply
        /\ ai.error # ""
        /\ resp.source = "fallback"
        /\ resp.status = 200
        /\ WellFormedInstruction(resp.body)
        /\ resp.body.confidence = Num(40)

\* C30 witness: the client is there, the image did not decode, and the
\* fallback answered without the capability having been called
C30_Witness ==
    /\ client = "ok"
    /\ req.image = "bad_b64"
    /\ ~ai.invoked
    /\ reply = NoReply
    /\ resp.source = "fallback"

-----------------------------------------------------------------------------
(* Claims about the aligned message of the Turn-Guidance Planner *)

\* The aligned message of the claim: metres below 1 km, kilometres with one
\* decimal otherwise (the distance of the request is in centimetres)
ClaimedAlignedText ==
    IF treq.distance_m < 100000
    THEN "Perfect! " \o treq.poi_name \o " is about "
         \o ToString(treq.distance_m \div 100) \o " meters straight ahead."
    ELSE LET tenths == RoundDiv(treq.distance_m, 10000)
         IN  "Perfect! " \o treq.poi_name \o " is about "
             \o ToString(tenths \div 10) \o "." \o ToString(tenths % 10)
             \o " kilometers straight ahead."

\* C31: when the heading delta satisfies |delta| < 5, generate_turn_guidance
\* returns the aligned message templated from the distance without invoking
\* the AI capability, whether or not the AI capability is available.
C31_AlignedNeedsNoModel ==
    (tres # NoTurn /\ Abs(ClaimedDelta) < 5000) =>
        /\ ~tres.invoked
        /\ tres.alignment_status = "aligned"
        /\ tres.text = ClaimedAlignedText
        /\ tres.turn_degrees = ClaimedDelta

-----------------------------------------------------------------------------
(* Claims about the order of the Terrain Gate and the AI analysis *)

\* The view called the service and the Terrain Gate raised (dem_service or
\* one of its imports is not there)
GateRaised ==
    /\ hres # NoHorizon
    /\ hres.called
    /\ ~hreq.dem_available

\* Nothing between the gate and the call of the capability stops the
\* analysis: the client is there, the image decodes, the POIs can be listed
AnalysisCanStart ==
    /\ client = "ok"
    /\ hreq.image = "jpeg"
    /\ ~PoiSummaryRaises(hreq.visible_pois)

\* C32: in the Horizon Refiner the Terrain Gate is consulted before anything
\* else: whenever the gate reports skip = true the external AI capability is
\* never invoked for that call, and whenever the gate itself raises, the
\* refiner proceeds to the AI analysis instead of skipping.
C32_GateBeforeModel ==
    /\ GateSkipped =>
          /\ ~hres.result.invoked
          /\ hres.result.skipped_reason # ""
    /\ GateRaised =>
          /\ hres.result.skipped_reason = ""
          /\ AnalysisCanStart => hres.result.invoked
          /\ ~AnalysisCanStart => hres.result.error # ""

\* C32 witness: the gate raised over terrain that is flat, and the capability
\* was invoked
C32_Witness ==
    /\ GateRaised
    /\ should_skip_gemini_analysis(hreq.configured, hreq.lookups).skip
    /\ hres.result.invoked
    /\ hres.result.skipped_reason = ""

-----------------------------------------------------------------------------
(* Claims about the refined POIs of the Horizon Refiner *)

\* Every POI of the request has an entry of its name in the list
CoversInput(refined) ==
    \A i \in 1..Len(hreq.visible_pois) :
        \E j \in 1..Len(refined) : refined[j].name = hreq.visible_pois[i].name

\* The refined POIs of the service's result: those of data on success,
\* those next to the error otherwise
ResultRefined ==
    IF hres.result.success /\ hres.result.shape = "dict"
    THEN ListGet(hres.result.data.refined_pois, <<>>)
    ELSE ListGet(hres.result.refined_pois, <<>>)

\* C34: every result of the Horizon Refiner, in every outcome (skipped, AI
\* success, AI failure), contains a refined POI entry for each input POI,
\* also when the AI returns a refined_pois list that is empty or shorter
\* than the input.
C34_EveryPoiRefined ==
    (hres # NoHorizon /\ hres.called) =>
        /\ hres.result.shape = "dict" => CoversInput(ResultRefined)
        /\ CoversInput(hres.response.refined_pois)

-----------------------------------------------------------------------------
(* Claims about concurrent requests on the Result Cache *)

\* Request w went through the AI capability and stored its result
InvokedAndStored(w) ==
    /\ workers[w].pc = "done"
    /\ workers[w].svc.invoked
    /\ workers[w].steps = <<"lookup", "ai", "store">>

\* C33: there is no single-flight barrier on the Result Cache: concurrent
\* token-free requests with the same cache key that all miss each invoke the
\* AI capability and each store a result, and a store overwrites the entry
\* wholesale: after it the entry is exactly the result of the request that
\* stored, with an expiry of its own, never a mixture.
C33_StoreOverwritesWholesale ==
    [][\A w \in DOMAIN workers :
          (workers[w].pc = "store" /\ workers'[w].pc = "done") =>
              cache'[CacheKey(FlightRequest)] =
                  [value |-> workers[w].data,
                   expires |-> now + NAVIGATION_CACHE_TIMEOUT]]_vars

\* C33 witness: two requests missed, both invoked the capability and both
\* stored, with different results, and the entry is the result of request 2
C33_Witness ==
    /\ InvokedAndStored(1)
    /\ InvokedAndStored(2)
    /\ workers[1].data # workers[2].data
    /\ cache[CacheKey(FlightRequest)].value = workers[2].data
    /\ metrics.latencies >= 2

-----------------------------------------------------------------------------
(* Claims about the entries of the Result Cache *)

\* C35: a cache hit in analyze_frame leaves the stored entry unchanged:
\* marking the returned result as from_cache does not alter the entry in the
\* store, and the expiry of the entry is not extended by the read.
C35_HitLeavesEntry ==
    [][(metrics'.requests # metrics.requests /\ resp'.source = "cache") =>
          /\ cache' = cache
          /\ resp'.body.from_cache = "true"
          /\ cache'[CacheKey(req')].value.from_cache = "false"]_vars

\* C35 witness: a request was served from an entry stored some time before;
\* the entry is unmarked and expires when it was to expire from the start
C35_Witness ==
    /\ resp.source = "cache"
    /\ resp.body.from_cache = "true"
    /\ now > 0
    /\ cache[CacheKey(req)].value.from_cache = "false"
    /\ cache[CacheKey(req)].expires = NAVIGATION_CACHE_TIMEOUT

-----------------------------------------------------------------------------
(* Claims about the order of the steps of analyze_frame *)

\* Request w has left the view
Finished(w) == workers[w].pc \in {"done", "raised"}

\* C36: for every token-free analyze_frame request that misses the cache
\* (caching enabled), the steps happen in the order cache lookup, AI
\* invocation, (on failure) Fallback Planner, cache store, and the result is
\* stored under the request's key exactly once, whether the AI Orchestrator
\* or the Fallback Planner produced it; a cache hit invokes neither the AI
\* nor the fallback and performs no store.
C36_StepsInOrder ==
    \A w \in DOMAIN workers :
        Finished(w) =>
            IF workers[w].data.from_cache = "true"
            THEN workers[w].steps = <<"lookup">>
            ELSE /\ workers[w].steps \in {<<"lookup", "ai", "store">>,
                                          <<"lookup", "ai", "fallback", "store">>}
                 /\ (workers[w].svc.error # "") <=>
                        (workers[w].steps = <<"lookup", "ai", "fallback", "store">>)

-----------------------------------------------------------------------------
(* Claims about the origin of a delivered reasoning token *)

\* The response to the request handled last carries a reasoning token
DeliversToken ==
    /\ resp.source # "none"
    /\ resp.body.thought_signature \notin {"absent", NoToken}

\* C37: every non-null reasoning token delivered in an analyze_frame
\* response was returned by the AI capability while handling that same
\* request: a token obtained for one request is never delivered to a
\* different request, in particular not through a result served from the
\* cache.
C37_TokenOfOwnRequest ==
    DeliversToken =>
        /\ reply # NoReply
        /\ reply.sig = resp.body.thought_signature
        /\ resp.source # "cache"

-----------------------------------------------------------------------------
(* Claims about the counters of the Metrics Recorder *)

\* C38: in every reachable state of the Metrics Recorder the fallback
\* counter is at most the request counter, so the reported fallback rate
\* never exceeds 100 percent, under any interleaving of concurrent requests.
C38_FallbacksAtMostRequests ==
    /\ metrics.fallbacks <= metrics.requests
    /\ metrics.requests > 0 => metrics.fallbacks * 100 <= 100 * metrics.requests

-----------------------------------------------------------------------------
(* Claims about the windows of the Metrics Recorder *)

\* C39: the metrics windows are rolling: every latency sample that
\* get_metrics_summary counts or averages was recorded within the last hour,
\* at whatever time the summary is read.
C39_SummaryWithinWindow ==
    LET counted == get_metrics_summary(samples)
    IN  \A i \in 1..Len(counted) : now - counted[i] <= HOUR_SECONDS

=============================================================================
